---------------------------- MODULE Spec2Model ----------------------------
(***************************************************************************)
(* TaskLoop / BlockClash verification portal.                              *)
(*                                                                         *)
(* Three cooperating pieces share one hosted store (Supabase):             *)
(*   - VerificationPage (the wizard) with its ChatWindow,                  *)
(*   - AdminDashboard (the operator),                                      *)
(*   - the tables verification_sessions and chat_messages plus the         *)
(*     per-session broadcast channel chat-<id>.                            *)
(*                                                                         *)
(* Every async handler is a small process: one step for the synchronous    *)
(* code before its first await, and one step per await (the remote call    *)
(* taking effect together with the synchronous code that follows it).      *)
(* Table reads whose result is applied to a view (fetchSessions,           *)
(* loadMessages) are split into the read and the later setState.           *)
(* Texts are sequences of one-character strings, so that equality is       *)
(* case-sensitive and trim / toLowerCase are computed.                     *)
(***************************************************************************)
EXTENDS Integers, Sequences, FiniteSets, TLC

(***************************************************************************)
(* Bounds of the model.                                                    *)
(***************************************************************************)
MaxSessions == 1
MaxMessages == 2
\* Sessions created by other visitors of the verification page.
MaxVisitors == 1

(***************************************************************************)
(* Texts.                                                                  *)
(***************************************************************************)
Empty == <<>>

Str(c) == <<c>>

IsSpace(c) == c = " "

RECURSIVE TrimStart(_)
TrimStart(s) ==
  IF s = <<>> THEN <<>>
  ELSE IF IsSpace(Head(s)) THEN TrimStart(Tail(s)) ELSE s

RECURSIVE TrimEnd(_)
TrimEnd(s) ==
  IF s = <<>> THEN <<>>
  ELSE IF IsSpace(s[Len(s)]) THEN TrimEnd(SubSeq(s, 1, Len(s) - 1)) ELSE s

Trim(s) == TrimEnd(TrimStart(s))

\* Faulty variant: the comparison keeps the case.
ToLowerCase_Identity(s) == s

\* String.prototype.toLowerCase on the characters the inputs use.
LowerChar(c) ==
  IF c = "N" THEN "n" ELSE IF c = "A" THEN "a" ELSE IF c = "E" THEN "e" ELSE c

ToLowerCase(s) == [i \in 1..Len(s) |-> LowerChar(s[i])]

\* String.prototype.includes
Includes(s, t) ==
  \E i \in 0..(Len(s) - Len(t)) : SubSeq(s, i + 1, i + Len(t)) = t

\* The inputs the user and the operator type.
Names == { Str("N") }
Emails == { Str("e") }
UserCodes == { Str("A"), Str("a") }
OperatorCodes == { <<"A", " ">> }
BlankCodes == { <<" ">> }
SearchTerms == { Empty, <<"n", "o">>, <<"s">> }
\* Rows that were in verification_sessions before the page was loaded.
ExistingNames == { Empty, <<"N", "o">> }
ExistingEmails == { <<"s", "@">>, <<"n", "o">> }
MaxExisting == 2
Texts == { <<"h", " ">> }

(***************************************************************************)
(* State.                                                                  *)
(***************************************************************************)
VARIABLES
  \* the hosted store
  verification_sessions,  \* id -> [email, code, status], the rows that exist
  chat_messages,          \* the rows of chat_messages, in created_at order
  sessionSeq,             \* session ids handed out so far (uuid_generate_v4)
  messageSeq,             \* message uuids generated so far (by a client's
                          \* randomUUID or by the column default of an insert)
  chatEndedSent,          \* topics on which a chat-ended event was broadcast
  chatEndedReceived,      \* session ids whose chat-ended event the ChatWindow handled
  \* VerificationPage
  step, formStep, formData, sessionId, isVerifying, isProcessing, isSuccess,
  isChatOpen, unreadCount, codeError,
  notifications,          \* session ids of the notification channels not removed
  nextCall,               \* handleNext past its email-step await
  submitCall,             \* handleSubmit in flight
  \* ChatWindow
  chatMessages, chatInput, chatIsConnected, chatEnded, chatChannel,
  chatLoads,              \* ChatWindow.loadMessages calls in flight
  chatSend,               \* ChatWindow.handleSend in flight
  \* AdminPage / AdminDashboard
  isAuthenticated,
  blockclash_admin,       \* the local storage item of that name
  authUser,               \* the user signed in at the auth provider
  loginError,             \* AdminLogin's error
  authCall,               \* AdminLogin.handleSubmit or handleLogout in flight
  sessions, selectedSession, messages, newMessage, codeInput, searchTerm,
  filter, newSessionAlert, isConnected, channelRef,
  dashChannels,           \* topics of the channels the dashboard has not removed
  interval,               \* the setInterval of the mount effect is running
  fetchCall,              \* fetchSessions in flight
  loadCalls,              \* loadMessages calls in flight
  sendCall,               \* sendMessage in flight
  endCall,                \* endConversation in flight
  statusCall,             \* updateSessionStatus in flight
  codeCall                \* saveVerificationCode in flight

\* The chat-ended events broadcast and the ones the ChatWindow handled.
endedVars == <<chatEndedSent, chatEndedReceived>>
storeVars == <<verification_sessions, chat_messages, sessionSeq, messageSeq,
               endedVars>>
\* The unread badge and the subscription that feeds it.
notifyVars == <<unreadCount, notifications>>
pageVars == <<step, formStep, formData, sessionId, isVerifying, isProcessing,
              isSuccess, isChatOpen, notifyVars, codeError, nextCall,
              submitCall>>
chatVars == <<chatMessages, chatInput, chatIsConnected, chatEnded,
              chatChannel, chatLoads, chatSend>>
\* AdminPage and AdminLogin: the flag, the local storage item, the session at
\* the auth provider, the inline error and the login or logout in progress.
adminVars == <<isAuthenticated, blockclash_admin, authUser, loginError,
               authCall>>
\* The channel effect and the mount effect of the dashboard: the ref, the
\* channels created and not removed, the timer.
channelVars == <<channelRef, dashChannels, interval>>
dashVars == <<adminVars, sessions, selectedSession, messages,
              newMessage, codeInput, searchTerm, filter, newSessionAlert,
              isConnected, channelVars, fetchCall, loadCalls, sendCall,
              endCall, statusCall, codeCall>>
vars == <<storeVars, pageVars, chatVars, dashVars>>

\* useState<string | null>(null): no session id, no selected session.
null == 0

\* A channel reference that holds no channel.
NoChannel == [topic |-> null, joined |-> FALSE]

\* Idle (not running) handlers.
\* newSessionId is what the last createSessionWithEmail returned to handleNext:
\* "none" before any return, "id" for a row's id, "null" for no row.
IdleNext == [pc |-> "idle", email |-> Empty, newSessionId |-> "none"]
IdleSubmit == [pc |-> "idle", sessionId |-> null, code |-> Empty,
               correctCode |-> Empty, isCorrect |-> "false"]
\* useState<VerificationSession | null>(null)
NoSelection == [id |-> null, mc_name |-> Empty, email |-> Empty,
                code |-> Empty, status |-> "pending"]
IdleSend == [pc |-> "idle", sessionId |-> null, msg |-> <<>>]
IdleFetch == [pc |-> "idle", prevLength |-> 0, data |-> <<>>]
IdleEnd == [pc |-> "idle", sessionId |-> null]
IdleStatus == [pc |-> "idle", sessionId |-> null, status |-> "pending"]
IdleCode == [pc |-> "idle", sessionId |-> null, code |-> Empty]
IdleAuth == [pc |-> "idle", user |-> "none"]

\* The accounts of the auth provider: an operator, a member whose
\* admin_users row has role user, and a guest without an admin_users row.
\* "wrong" stands for credentials the provider rejects.
Credentials == {"wrong", "operator", "member", "guest"}

\* select('role').eq('id', user).single() on admin_users.
RoleOf(user) ==
  IF user = "operator" THEN "admin"
  ELSE IF user = "member" THEN "user" ELSE "none"


(***************************************************************************)
(* The store: tables, constraints, broadcast.                              *)
(***************************************************************************)
SessionIds == 1..(MaxSessions + 1)

SessionExists(id) == id \in DOMAIN verification_sessions

\* Faulty variant: the new row already carries a code (the email).
InsertSession_Coded(table, id, email) ==
  [i \in DOMAIN table \cup {id} |->
     IF i = id
     THEN [mc_name |-> Empty, email |-> email, code |-> email,
           status |-> "pending"]
     ELSE table[i]]

\* INSERT INTO verification_sessions (email, code, status): a new row under a
\* fresh uuid.
InsertSession(table, id, email) ==
  [i \in DOMAIN table \cup {id} |->
     IF i = id THEN [mc_name |-> Empty, email |-> email, code |-> Empty,
                     status |-> "pending"]
     ELSE table[i]]

\* UPDATE verification_sessions SET status = ... WHERE id = ...: rows that do
\* not exist are not touched.
UpdateStatus(table, id, status) ==
  [i \in DOMAIN table |->
     IF i = id THEN [table[i] EXCEPT !.status = status] ELSE table[i]]

\* UPDATE verification_sessions SET code = ... WHERE id = ...
UpdateCode(table, id, code) ==
  [i \in DOMAIN table |->
     IF i = id THEN [table[i] EXCEPT !.code = code] ELSE table[i]]

\* SELECT code FROM verification_sessions WHERE id = ... .single(), then
\* sessionData?.code || ''.
SelectCode(table, id) == IF id \in DOMAIN table THEN table[id].code ELSE Empty

\* Faulty variant: chat_messages without the foreign key on session_id.
RowAccepted_NoForeignKey(table, row) ==
  /\ row.sender \in {"user", "admin", "system"}
  /\ row.message_type \in {"text", "code_attempt"}
  /\ row.is_correct \in {"true", "false", "null"}

\* The constraints of chat_messages: the foreign key on session_id, the CHECKs
\* on sender and message_type, and is_correct a BOOLEAN (or NULL).
RowAccepted(table, row) ==
  /\ row.session_id \in DOMAIN table
  /\ row.sender \in {"user", "admin", "system"}
  /\ row.message_type \in {"text", "code_attempt"}
  /\ row.is_correct \in {"true", "false", "null"}

\* INSERT INTO chat_messages: the row is appended when the constraints accept
\* it, and the statement fails (error ignored by every caller) otherwise.
InsertMessage(rows, table, row) ==
  IF RowAccepted(table, row) THEN Append(rows, row) ELSE rows

\* DELETE FROM chat_messages WHERE session_id = ...
DeleteMessages(rows, id) ==
  LET Keep(r) == r.session_id # id IN SelectSeq(rows, Keep)

\* Faulty variant: the delete of the session row is lost.
DeleteSessionRow_Lost(table, id) == table

\* DELETE FROM verification_sessions WHERE id = ...
DeleteSessionRow(table, id) == [i \in DOMAIN table \ {id} |-> table[i]]

\* session_id ... REFERENCES verification_sessions(id) ON DELETE CASCADE: the
\* messages that remain after the session row is deleted.
CascadeMessages(rows, id) == DeleteMessages(rows, id)

\* A chat_messages row.
Row(id, sid, sender, message, type, correct) ==
  [id |-> id, session_id |-> sid, sender |-> sender, message |-> message,
   message_type |-> type, is_correct |-> correct]

\* A loadMessages call whose select has not run yet, and one that holds the
\* rows it read.
Load(sid) == [pc |-> "select", sessionId |-> sid, data |-> <<>>]

Loaded(sid, data) == [pc |-> "apply", sessionId |-> sid, data |-> data]

\* A LocalMessage of a transcript; message_type and is_correct are optional
\* and "undefined" when the object carries none.
Local(id, sender, message, type, correct) ==
  [id |-> id, sender |-> sender, message |-> message,
   message_type |-> type, is_correct |-> correct]

\* A widget receives the events of a topic once its channel has joined it.
DashListens(topic) ==
  isAuthenticated /\ channelRef.topic = topic /\ channelRef.joined

\* {isChatOpen && <ChatWindow ... />} in the tree VerificationPage renders
\* while it does not show the success view.
ChatMounted == isChatOpen /\ ~isSuccess

ChatListens(topic) ==
  ChatMounted /\ chatChannel.topic = topic /\ chatChannel.joined

\* Faulty variant: a message already in the transcript is not appended again.
ChatOnBroadcast_Deduplicated(msgs, event, payload) ==
  IF event = "new-message" /\ \A i \in 1..Len(msgs) : msgs[i].id # payload.id
  THEN Append(msgs, payload) ELSE msgs

\* ChatWindow's channel handlers: only new-message changes the transcript.
ChatOnBroadcast(msgs, event, payload) ==
  IF event = "new-message" THEN Append(msgs, payload) ELSE msgs

\* AdminDashboard's channel handlers: new-message and code-attempt.
DashOnBroadcast(msgs, event, payload) ==
  IF event = "new-message" THEN Append(msgs, payload)
  ELSE IF event = "code-attempt"
       THEN Append(msgs, Local(null, "system", payload.code, "code_attempt",
                               payload.is_correct))
       ELSE msgs

\* The notification effect of VerificationPage: subscribed to the inserts of
\* its session while the chat panel is closed.
NotificationsOn(sid) == sid \in notifications

\* Faulty variant: the cleanup of the notification effect forgets the channel.
RemoveNotifications_Leak(channels, sid) == channels

\* The cleanup of the notification effect: supabase.removeChannel(channel).
RemoveNotifications(channels, sid) == channels \ {sid}

\* if (!sessionId || isChatOpen) return: the effect subscribes or not.
Subscribes(sid, open) == sid # null /\ ~open

\* The notification effect when [sessionId, isChatOpen] goes from
\* <<sid, open>> to <<newSid, newOpen>>: the cleanup of the last run, then
\* the new run.
NotificationEffect(channels, sid, open, newSid, newOpen) ==
  IF sid = newSid /\ open = newOpen THEN channels
  ELSE LET cleaned == IF Subscribes(sid, open)
                      THEN RemoveNotifications(channels, sid)
                      ELSE channels
       IN IF Subscribes(newSid, newOpen)
          THEN cleaned \cup {newSid} ELSE cleaned

(***************************************************************************)
(* Initial state: a freshly loaded verification page, an empty store, and  *)
(* the admin page of an operator whose identifier is in local storage.     *)
(***************************************************************************)
InitStore ==
  /\ verification_sessions = <<>>
  /\ chat_messages = <<>>
  /\ sessionSeq = 0
  /\ messageSeq = 0
  /\ chatEndedSent = {}
  /\ chatEndedReceived = {}

InitPage ==
  /\ step = "welcome"
  /\ formStep = 0
  /\ formData = [mcName |-> Empty, email |-> Empty, code |-> Empty]
  /\ sessionId = null
  /\ isVerifying = FALSE
  /\ isProcessing = FALSE
  /\ isSuccess = FALSE
  /\ isChatOpen = FALSE
  /\ unreadCount = 0
  /\ notifications = {}
  /\ codeError = FALSE
  /\ nextCall = IdleNext
  /\ submitCall = IdleSubmit

InitChat ==
  /\ chatMessages = <<>>
  /\ chatInput = Empty
  /\ chatIsConnected = FALSE
  /\ chatEnded = FALSE
  /\ chatChannel = NoChannel
  /\ chatLoads = {}
  /\ chatSend = IdleSend

\* Faulty variant: any stored value, also none, opens the dashboard.
StoredAdmin_Any(adminId) == TRUE

\* adminId !== null && adminId !== 'false' && adminId !== ''
StoredAdmin(adminId) == adminId \notin {"null", "false", ""}

\* AdminPage on load, with the local storage and the auth session a browser
\* holds: after an operator's login (stored = user = the operator's id) or
\* with neither.
InitAdmin(stored) ==
  /\ blockclash_admin = stored
  /\ isAuthenticated = StoredAdmin(stored)
  /\ authUser = (IF stored = "null" THEN "none" ELSE stored)
  /\ loginError = ""
  /\ authCall = IdleAuth
  /\ interval = StoredAdmin(stored)

InitDash ==
  /\ sessions = <<>>
  /\ selectedSession = NoSelection
  /\ messages = <<>>
  /\ newMessage = Empty
  /\ codeInput = Empty
  /\ searchTerm = Empty
  /\ filter = "all"
  /\ newSessionAlert = FALSE
  /\ isConnected = FALSE
  /\ channelRef = NoChannel
  /\ dashChannels = {}
  /\ fetchCall = IdleFetch
  /\ loadCalls = {}
  /\ sendCall = IdleSend
  /\ endCall = IdleEnd
  /\ statusCall = IdleStatus
  /\ codeCall = IdleCode

Init == InitStore /\ InitPage /\ InitChat /\ InitDash /\ InitAdmin("operator")

\* The admin page opened in a browser that holds no operator session.
InitLoggedOut ==
  InitStore /\ InitPage /\ InitChat /\ InitDash /\ InitAdmin("null")

\* A store that already holds sessions, of any status, some of them with a
\* display name in mc_name.
ExistingRows ==
  [mc_name : ExistingNames, email : ExistingEmails, code : {Empty},
   status : {"pending", "verified", "rejected"}]

InitStoreExisting ==
  /\ \E n \in 1..MaxExisting :
       /\ verification_sessions \in [1..n -> ExistingRows]
       /\ sessionSeq = n
  /\ chat_messages = <<>>
  /\ messageSeq = 0
  /\ chatEndedSent = {}
  /\ chatEndedReceived = {}

InitExisting ==
  InitStoreExisting /\ InitPage /\ InitChat /\ InitDash
    /\ InitAdmin("operator")

(***************************************************************************)
(* VerificationPage: the wizard.                                           *)
(***************************************************************************)
\* The chat panel is opened: a new ChatWindow is mounted and its effect runs.
MountChat ==
  /\ chatMessages' = <<>>
  /\ chatInput' = Empty
  /\ chatIsConnected' = FALSE
  /\ chatEnded' = FALSE
  /\ IF sessionId # null
     THEN /\ chatChannel' = [topic |-> sessionId, joined |-> FALSE]
          /\ chatLoads' = {Load(sessionId)}
     ELSE /\ chatChannel' = NoChannel
          /\ chatLoads' = {}
  /\ UNCHANGED chatSend

\* The chat panel is closed: the ChatWindow is unmounted, its channel is
\* removed and its state is gone; a send past its await still completes.
UnmountChat ==
  /\ chatMessages' = <<>>
  /\ chatInput' = Empty
  /\ chatIsConnected' = FALSE
  /\ chatEnded' = FALSE
  /\ chatChannel' = NoChannel
  /\ chatLoads' = {}
  /\ UNCHANGED chatSend

\* Faulty variant: the form stays on screen during the wait.
FormVisible_WhileProcessing == step = "form" /\ ~isSuccess

\* The form card is rendered (not the welcome, processing or success view).
FormVisible == step = "form" /\ ~isProcessing /\ ~isSuccess

\* steps[formStep].field
Field(n) == IF n = 0 THEN "mcName" ELSE IF n = 1 THEN "email" ELSE "code"

\* The Continue / Verify Code button is enabled.
ContinueEnabled == FormVisible /\ formData[Field(formStep)] # Empty /\ ~isVerifying

handleStartVerification ==
  /\ step = "welcome"
  /\ step' = "form"
  /\ UNCHANGED <<formStep, formData, sessionId, isVerifying, isProcessing,
                 isSuccess, isChatOpen, notifyVars, codeError, nextCall,
                 submitCall>>
  /\ UNCHANGED <<storeVars, chatVars, dashVars>>

\* onChange of the input of the current step.
TypeField(v) ==
  /\ FormVisible
  /\ formData[Field(formStep)] # v
  /\ formData' = [formData EXCEPT ![Field(formStep)] = v]
  /\ codeError' = IF formStep = 2 THEN FALSE ELSE codeError
  /\ UNCHANGED <<step, formStep, sessionId, isVerifying, isProcessing,
                 isSuccess, isChatOpen, notifyVars, nextCall, submitCall>>
  /\ UNCHANGED <<storeVars, chatVars, dashVars>>

TypeInput ==
  \/ \E v \in Names : formStep = 0 /\ TypeField(v)
  \/ \E v \in Emails : formStep = 1 /\ TypeField(v)
  \/ \E v \in UserCodes : formStep = 2 /\ TypeField(v)

\* The Back button: setFormStep(curr => curr - 1).
Back ==
  /\ FormVisible
  /\ formStep > 0
  /\ formStep' = formStep - 1
  /\ UNCHANGED <<step, formData, sessionId, isVerifying, isProcessing,
                 isSuccess, isChatOpen, notifyVars, codeError, nextCall,
                 submitCall>>
  /\ UNCHANGED <<storeVars, chatVars, dashVars>>

\* Faulty variant: the session row is created on leaving the name step.
handleNextName_CreatesSession ==
  /\ ContinueEnabled
  /\ formStep = 0
  /\ sessionSeq < MaxSessions
  /\ formStep' = 1
  /\ sessionSeq' = sessionSeq + 1
  /\ verification_sessions' =
       InsertSession(verification_sessions, sessionSeq + 1, formData.email)
  /\ UNCHANGED <<step, formData, sessionId, isVerifying, isProcessing,
                 isSuccess, isChatOpen, notifyVars, codeError, nextCall,
                 submitCall>>
  /\ UNCHANGED <<chat_messages, messageSeq, endedVars>>
  /\ UNCHANGED <<chatVars, dashVars>>

\* handleNext at formStep 0.
handleNextName ==
  /\ ContinueEnabled
  /\ formStep = 0
  /\ formStep' = 1
  /\ UNCHANGED <<step, formData, sessionId, isVerifying, isProcessing,
                 isSuccess, isChatOpen, notifyVars, codeError, nextCall,
                 submitCall>>
  /\ UNCHANGED <<storeVars, chatVars, dashVars>>

\* handleNext at formStep 1, up to the await of createSessionWithEmail.
handleNextEmail ==
  /\ ContinueEnabled
  /\ formStep = 1
  /\ sessionSeq < MaxSessions
  /\ isProcessing' = TRUE
  /\ nextCall' = [pc |-> "insert", email |-> formData.email,
                  newSessionId |-> "none"]
  /\ UNCHANGED <<step, formStep, formData, sessionId, isVerifying, isSuccess,
                 isChatOpen, notifyVars, codeError, submitCall>>
  /\ UNCHANGED <<storeVars, chatVars, dashVars>>

\* handleNext at the email step in a wizard run where the visitor comes back
\* to the email step: the rows the wizard creates are capped by the number of
\* rows the table holds at most.
handleNextEmailRepeated ==
  /\ ContinueEnabled
  /\ formStep = 1
  /\ sessionSeq < MaxSessions + MaxVisitors
  /\ isProcessing' = TRUE
  /\ nextCall' = [pc |-> "insert", email |-> formData.email,
                  newSessionId |-> "none"]
  /\ UNCHANGED <<step, formStep, formData, sessionId, isVerifying, isSuccess,
                 isChatOpen, notifyVars, codeError, submitCall>>
  /\ UNCHANGED <<storeVars, chatVars, dashVars>>

\* The ChatWindow effect re-runs when its sessionId prop changes: the old
\* channel is removed, the history load and a new channel are started.
ChatEffect(open, sid) ==
  IF open /\ sid # null
  THEN /\ chatChannel' = [topic |-> sid, joined |-> FALSE]
       /\ chatLoads' = chatLoads \cup {Load(sid)}
  ELSE /\ chatChannel' = NoChannel
       /\ chatLoads' = chatLoads

\* Faulty variant: setIsProcessing(false) is forgotten when no row came back.
ProcessingAfterCreate_Stuck(ok, processing) == processing

\* handleNext after createSessionWithEmail: processing goes on until the
\* timer when a session id came back, and ends at once when none did.
ProcessingAfterCreate(ok, processing) == IF ok THEN processing ELSE FALSE

\* createSessionWithEmail returns: the insert succeeded and the row with its
\* id came back (ok), or the backend refused it and no row came back.
createSessionWithEmail(ok) ==
  /\ nextCall.pc = "insert"
  /\ IF ok
     THEN /\ sessionSeq' = sessionSeq + 1
          /\ verification_sessions' =
               InsertSession(verification_sessions, sessionSeq + 1,
                             nextCall.email)
          /\ sessionId' = sessionSeq + 1
          /\ notifications' =
               NotificationEffect(notifications, sessionId, isChatOpen,
                                  sessionSeq + 1, isChatOpen)
          /\ nextCall' = [nextCall EXCEPT !.pc = "timer",
                                          !.newSessionId = "id"]
          /\ isProcessing' = ProcessingAfterCreate(ok, isProcessing)
          /\ IF isChatOpen
             THEN ChatEffect(TRUE, sessionSeq + 1)
             ELSE UNCHANGED <<chatChannel, chatLoads>>
     ELSE /\ isProcessing' = ProcessingAfterCreate(ok, isProcessing)
          /\ nextCall' = [IdleNext EXCEPT !.newSessionId = "null"]
          /\ UNCHANGED <<sessionSeq, verification_sessions, sessionId,
                         notifications, chatChannel, chatLoads>>
  /\ UNCHANGED <<chat_messages, messageSeq, endedVars>>
  /\ UNCHANGED <<step, formStep, formData, isVerifying, isSuccess,
                 isChatOpen, unreadCount, codeError, submitCall>>
  /\ UNCHANGED <<chatMessages, chatInput, chatIsConnected, chatEnded,
                 chatSend>>
  /\ UNCHANGED dashVars

CreateSessionReturns == \E ok \in BOOLEAN : createSessionWithEmail(ok)

\* createSessionWithEmail of the verification page in another visitor's
\* browser: only its effect on the store is kept.
VisitorCreatesSession ==
  \E email \in Emails :
    /\ sessionSeq < MaxSessions + MaxVisitors
    /\ sessionSeq' = sessionSeq + 1
    /\ verification_sessions' =
         InsertSession(verification_sessions, sessionSeq + 1, email)
    /\ UNCHANGED <<chat_messages, messageSeq, endedVars>>
    /\ UNCHANGED <<pageVars, chatVars, dashVars>>

\* Faulty variant: the code step is shown without a session having been
\* created.
ProcessingTimeout_NoSession ==
  /\ FormVisible
  /\ formStep = 1
  /\ nextCall.pc = "idle"
  /\ formStep' = 2
  /\ UNCHANGED <<step, formData, sessionId, isVerifying, isProcessing,
                 isSuccess, isChatOpen, notifyVars, codeError, nextCall,
                 submitCall>>
  /\ UNCHANGED <<storeVars, chatVars, dashVars>>

\* The 30 s timer started by handleNext fires.
ProcessingTimeout ==
  /\ nextCall.pc = "timer"
  /\ isProcessing' = FALSE
  /\ formStep' = 2
  /\ nextCall' = IdleNext
  /\ UNCHANGED <<step, formData, sessionId, isVerifying, isSuccess,
                 isChatOpen, notifyVars, codeError, submitCall>>
  /\ UNCHANGED <<storeVars, chatVars, dashVars>>

\* The dashboard state a broadcast does not touch.
dashButMessages == <<adminVars, sessions, selectedSession, newMessage,
                     codeInput, searchTerm, filter, newSessionAlert,
                     isConnected, channelVars, fetchCall, loadCalls, sendCall,
                     endCall, statusCall, codeCall>>

dashButMessagesLoads == <<adminVars, sessions, selectedSession,
                          newMessage, codeInput, searchTerm, filter,
                          newSessionAlert, isConnected, channelVars, fetchCall,
                          sendCall, endCall, statusCall, codeCall>>

\* Faulty variant: the codes are compared ignoring case.
IsCorrect_IgnoreCase(correctCode, code) ==
  IF correctCode = Empty THEN ""
  ELSE IF ToLowerCase(code) = ToLowerCase(correctCode) THEN "true"
       ELSE "false"

\* Faulty variant: the submitted text only has to start with the stored code.
IsCorrect_Prefix(correctCode, code) ==
  IF Len(correctCode) <= Len(code)
       /\ SubSeq(code, 1, Len(correctCode)) = correctCode
  THEN "true" ELSE "false"

\* const isCorrect = correctCode && formData.code === correctCode: the blank
\* string itself when the stored code is blank, a boolean otherwise.
IsCorrect(correctCode, code) ==
  IF correctCode = Empty THEN ""
  ELSE IF code = correctCode THEN "true" ELSE "false"

\* if (isCorrect)
Truthy(v) == v = "true"

\* handleNext at formStep 2 calls handleSubmit, which runs up to its first
\* await with the session id and the code input of this render.
handleSubmitStart ==
  /\ ContinueEnabled
  /\ formStep = 2
  /\ messageSeq < MaxMessages
  /\ isVerifying' = TRUE
  /\ submitCall' = [pc |-> "select", sessionId |-> sessionId,
                    code |-> formData.code, correctCode |-> Empty,
                    isCorrect |-> "false"]
  /\ UNCHANGED <<step, formStep, formData, sessionId, isProcessing,
                 isSuccess, isChatOpen, notifyVars, codeError, nextCall>>
  /\ UNCHANGED <<storeVars, chatVars, dashVars>>

\* The stored code is read and compared with the submitted one.
handleSubmitSelect ==
  /\ submitCall.pc = "select"
  /\ LET correctCode ==
           SelectCode(verification_sessions, submitCall.sessionId)
     IN submitCall' =
          [submitCall EXCEPT
             !.pc = "insert",
             !.correctCode = correctCode,
             !.isCorrect = IsCorrect(correctCode, submitCall.code)]
  /\ UNCHANGED <<step, formStep, formData, sessionId, isVerifying,
                 isProcessing, isSuccess, isChatOpen, notifyVars, codeError,
                 nextCall>>
  /\ UNCHANGED <<storeVars, chatVars, dashVars>>

\* The row handleSubmit inserts for a code attempt.
AttemptRow(id, call) ==
  Row(id, call.sessionId, "system", call.code, "code_attempt", call.isCorrect)

\* The code_attempt row is inserted, then the code-attempt event is broadcast
\* on chat-<sessionId>.
handleSubmitInsert ==
  /\ submitCall.pc = "insert"
  /\ LET row == AttemptRow(messageSeq + 1, submitCall)
         payload == [code |-> submitCall.code,
                     is_correct |-> submitCall.isCorrect]
     IN /\ chat_messages' =
             InsertMessage(chat_messages, verification_sessions, row)
        /\ messageSeq' = messageSeq + 1
        /\ messages' = IF DashListens(submitCall.sessionId)
                       THEN DashOnBroadcast(messages, "code-attempt", payload)
                       ELSE messages
        /\ chatMessages' = IF ChatListens(submitCall.sessionId)
                           THEN ChatOnBroadcast(chatMessages, "code-attempt",
                                                payload)
                           ELSE chatMessages
  /\ submitCall' = [submitCall EXCEPT
                      !.pc = IF Truthy(submitCall.isCorrect)
                             THEN "update" ELSE "timeout"]
  /\ UNCHANGED <<verification_sessions, sessionSeq, endedVars>>
  /\ UNCHANGED <<step, formStep, formData, sessionId, isVerifying,
                 isProcessing, isSuccess, isChatOpen, notifyVars, codeError,
                 nextCall>>
  /\ UNCHANGED <<chatInput, chatIsConnected, chatEnded, chatChannel,
                 chatLoads, chatSend>>
  /\ UNCHANGED dashButMessages

\* The status update handleSubmit issues on a match.
SubmitStatusUpdate(table, id) == UpdateStatus(table, id, "verified")

handleSubmitUpdate ==
  /\ submitCall.pc = "update"
  /\ verification_sessions' =
       SubmitStatusUpdate(verification_sessions, submitCall.sessionId)
  /\ submitCall' = [submitCall EXCEPT !.pc = "timeout"]
  /\ UNCHANGED <<chat_messages, sessionSeq, messageSeq, endedVars>>
  /\ UNCHANGED <<step, formStep, formData, sessionId, isVerifying,
                 isProcessing, isSuccess, isChatOpen, notifyVars, codeError,
                 nextCall>>
  /\ UNCHANGED <<chatVars, dashVars>>

\* After the one-second wait: success, or the error with the input cleared.
handleSubmitFinish ==
  /\ submitCall.pc = "timeout"
  /\ isVerifying' = FALSE
  /\ IF Truthy(submitCall.isCorrect)
     THEN /\ codeError' = FALSE
          /\ isSuccess' = TRUE
          /\ formData' = formData
     ELSE /\ codeError' = TRUE
          /\ isSuccess' = isSuccess
          /\ formData' = [formData EXCEPT !.code = Empty]
  /\ IF Truthy(submitCall.isCorrect) THEN UnmountChat ELSE UNCHANGED chatVars
  /\ submitCall' = IdleSubmit
  /\ UNCHANGED <<step, formStep, sessionId, isProcessing, isChatOpen,
                 notifyVars, nextCall>>
  /\ UNCHANGED <<storeVars, dashVars>>

\* The Done button of the success view: window.location.reload().
Reload ==
  /\ isSuccess
  /\ step' = "welcome"
  /\ formStep' = 0
  /\ formData' = [mcName |-> Empty, email |-> Empty, code |-> Empty]
  /\ sessionId' = null
  /\ isVerifying' = FALSE
  /\ isProcessing' = FALSE
  /\ isSuccess' = FALSE
  /\ isChatOpen' = FALSE
  /\ unreadCount' = 0
  /\ notifications' = {}
  /\ codeError' = FALSE
  /\ nextCall' = IdleNext
  /\ submitCall' = IdleSubmit
  /\ UnmountChat
  /\ UNCHANGED <<storeVars, dashVars>>

\* Faulty variant: the cleanup of the channel effect forgets the channel.
RemoveChannel_Leak(channels, ref) == channels

\* The cleanup of the channel effect: supabase.removeChannel(channel).
RemoveChannel(channels, ref) ==
  IF ref = NoChannel THEN channels ELSE channels \ {ref.topic}

\* Faulty variant: the cleanup of the mount effect leaves the timer running.
ClearInterval_Forgotten(running) == running

\* The cleanup of the mount effect: clearInterval(interval).
ClearInterval(running) == FALSE

\* The state of AdminPage, AdminLogin and the auth provider that the
\* dashboard and the verification page never touch.
allButAdmin == <<storeVars, pageVars, chatVars, sessions, selectedSession,
                 messages, newMessage, codeInput, searchTerm, filter,
                 newSessionAlert, isConnected, channelRef, dashChannels,
                 fetchCall, loadCalls, sendCall, endCall, statusCall,
                 codeCall>>

\* AdminLogin.handleSubmit up to the await of signInWithPassword.
loginSubmit ==
  \E who \in Credentials :
    /\ ~isAuthenticated
    /\ authCall.pc = "idle"
    /\ loginError' = ""
    /\ authCall' = [pc |-> "signIn", user |-> who]
    /\ UNCHANGED <<isAuthenticated, blockclash_admin, authUser>>
    /\ UNCHANGED <<allButAdmin, interval>>

\* signInWithPassword returns: an error, or the user now signed in.
loginSignIn ==
  /\ authCall.pc = "signIn"
  /\ IF authCall.user = "wrong"
     THEN /\ loginError' = "authError.message"
          /\ authCall' = IdleAuth
          /\ authUser' = authUser
     ELSE /\ authUser' = authCall.user
          /\ authCall' = [authCall EXCEPT !.pc = "lookup"]
          /\ loginError' = loginError
  /\ UNCHANGED <<isAuthenticated, blockclash_admin>>
  /\ UNCHANGED <<allButAdmin, interval>>

\* Faulty variant: any signed-in user is taken for an operator.
loginLookup_NoRoleCheck ==
  /\ authCall.pc = "lookup"
  /\ blockclash_admin' = authCall.user
  /\ isAuthenticated' = TRUE
  /\ authCall' = IdleAuth
  /\ UNCHANGED <<authUser, loginError>>
  /\ interval' = TRUE
  /\ UNCHANGED allButAdmin

\* The admin_users lookup returns: no row, another role, or role admin, in
\* which case the identifier is stored and onLogin is called.
loginLookup ==
  /\ authCall.pc = "lookup"
  /\ LET role == RoleOf(authCall.user)
     IN IF role = "admin"
        THEN /\ blockclash_admin' = authCall.user
             /\ isAuthenticated' = TRUE
             /\ interval' = TRUE
             /\ loginError' = loginError
             /\ authCall' = IdleAuth
        ELSE /\ loginError' = (IF role = "none"
                               THEN "User not found in admin system"
                               ELSE "Access denied")
             /\ authCall' = [authCall EXCEPT !.pc = "signOut"]
             /\ UNCHANGED <<isAuthenticated, blockclash_admin, interval>>
  /\ authUser' = authUser
  /\ UNCHANGED allButAdmin

\* await supabase.auth.signOut() of a refused login.
loginSignOut ==
  /\ authCall.pc = "signOut"
  /\ authUser' = "none"
  /\ authCall' = IdleAuth
  /\ UNCHANGED <<isAuthenticated, blockclash_admin, loginError>>
  /\ UNCHANGED <<allButAdmin, interval>>

\* handleLogout up to its await: the identifier is removed.
handleLogoutStart ==
  /\ isAuthenticated
  /\ authCall.pc = "idle"
  /\ blockclash_admin' = "null"
  /\ authCall' = [pc |-> "logout", user |-> authUser]
  /\ UNCHANGED <<isAuthenticated, authUser, loginError>>
  /\ UNCHANGED <<allButAdmin, interval>>

\* The dashboard state of a fresh mount.
FreshDashboard ==
  /\ sessions' = <<>>
  /\ selectedSession' = NoSelection
  /\ messages' = <<>>
  /\ newMessage' = Empty
  /\ codeInput' = Empty
  /\ searchTerm' = Empty
  /\ filter' = "all"
  /\ newSessionAlert' = FALSE
  /\ isConnected' = FALSE
  /\ channelRef' = NoChannel
  /\ fetchCall' = IdleFetch
  /\ loadCalls' = {}
  /\ sendCall' = IdleSend
  /\ endCall' = IdleEnd
  /\ statusCall' = IdleStatus
  /\ codeCall' = IdleCode

\* No handler of the dashboard is between a remote write and its return.
\* The dashboard is unmounted only then: a handler cut off by the unmount
\* would still complete its remote calls.
NoWriteInFlight ==
  /\ sendCall.pc = "idle"
  /\ endCall.pc = "idle"
  /\ statusCall.pc = "idle"
  /\ codeCall.pc = "idle"

\* handleLogout after signOut: the login view replaces the dashboard.
handleLogoutFinish ==
  /\ authCall.pc = "logout"
  /\ NoWriteInFlight
  /\ authUser' = "none"
  /\ isAuthenticated' = FALSE
  /\ authCall' = IdleAuth
  /\ FreshDashboard
  /\ dashChannels' = RemoveChannel(dashChannels, channelRef)
  /\ interval' = ClearInterval(interval)
  /\ UNCHANGED <<blockclash_admin, loginError>>
  /\ UNCHANGED <<storeVars, pageVars, chatVars>>

\* The admin page is loaded again, between two handlers: the flag is read
\* from local storage and the dashboard is mounted anew.
ReloadAdminPage ==
  /\ authCall.pc = "idle"
  /\ NoWriteInFlight
  /\ isAuthenticated' = StoredAdmin(blockclash_admin)
  /\ loginError' = ""
  /\ authCall' = IdleAuth
  /\ FreshDashboard
  /\ dashChannels' = {}
  /\ interval' = StoredAdmin(blockclash_admin)
  /\ UNCHANGED <<blockclash_admin, authUser>>
  /\ UNCHANGED <<storeVars, pageVars, chatVars>>

(***************************************************************************)
(* AdminDashboard.                                                         *)
(***************************************************************************)
\* select('*') of one verification_sessions row.
LocalRow(table, id) ==
  [id |-> id, mc_name |-> table[id].mc_name, email |-> table[id].email,
   code |-> table[id].code, status |-> table[id].status]

\* select('*').order('created_at', { ascending: false }): ids are handed out
\* in creation order, so the newest row has the greatest id.
RECURSIVE NewestFirst(_, _)
NewestFirst(table, ids) ==
  IF ids = {} THEN <<>>
  ELSE LET m == CHOOSE i \in ids : \A j \in ids : j <= i
       IN <<LocalRow(table, m)>> \o NewestFirst(table, ids \ {m})

\* Faulty variant: the rows come back oldest first.
SelectSessions_OldestFirst(table) ==
  LET rows == NewestFirst(table, DOMAIN table)
  IN [i \in 1..Len(rows) |-> rows[Len(rows) + 1 - i]]

SelectSessions(table) == NewestFirst(table, DOMAIN table)

\* select('*').eq('session_id', id).order('created_at') as loadMessages of the
\* dashboard maps it: id, sender, message (and created_at).
DashHistory(rows, id) ==
  LET Mine(r) == r.session_id = id
      mine == SelectSeq(rows, Mine)
  IN [i \in 1..Len(mine) |->
        Local(mine[i].id, mine[i].sender, mine[i].message, "undefined",
              "undefined")]

\* sessions.filter(...): search term against mc_name and email, status filter.
MatchesSearch(session) ==
  \/ Includes(ToLowerCase(session.mc_name), ToLowerCase(searchTerm))
  \/ Includes(ToLowerCase(session.email), ToLowerCase(searchTerm))

MatchesFilter(session) == filter = "all" \/ session.status = filter

filteredSessions ==
  LET Shown(session) == MatchesSearch(session) /\ MatchesFilter(session)
  IN SelectSeq(sessions, Shown)

\* onChange of the search input.
TypeSearch ==
  \E v \in SearchTerms :
    /\ isAuthenticated
    /\ searchTerm # v
    /\ searchTerm' = v
    /\ UNCHANGED <<adminVars, sessions, selectedSession, messages,
                   newMessage, codeInput, filter, newSessionAlert,
                   isConnected, channelVars, fetchCall, loadCalls, sendCall,
                   endCall, statusCall, codeCall>>
    /\ UNCHANGED <<storeVars, pageVars, chatVars>>

\* onClick of a filter button.
SetFilter ==
  \E f \in {"all", "pending", "verified", "rejected"} :
    /\ isAuthenticated
    /\ filter # f
    /\ filter' = f
    /\ UNCHANGED <<adminVars, sessions, selectedSession, messages,
                   newMessage, codeInput, searchTerm, newSessionAlert,
                   isConnected, channelVars, fetchCall, loadCalls, sendCall,
                   endCall, statusCall, codeCall>>
    /\ UNCHANGED <<storeVars, pageVars, chatVars>>

\* The dashboard state the session list refresh does not touch.
dashButSessions == <<adminVars, selectedSession, messages, newMessage,
                     codeInput, searchTerm, filter, isConnected, channelVars,
                     loadCalls, sendCall, endCall, statusCall, codeCall>>

\* fetchSessions is called: by the mount effect and its interval, whose
\* closure holds the sessions of the first render (none), or by the refresh
\* button, whose closure holds the sessions of the current render.
fetchSessionsStart(periodic) ==
  /\ isAuthenticated
  /\ fetchCall.pc = "idle"
  /\ fetchCall' = [pc |-> "select",
                   prevLength |-> IF periodic THEN 0 ELSE Len(sessions),
                   data |-> <<>>]
  /\ UNCHANGED <<sessions, newSessionAlert>>
  /\ UNCHANGED dashButSessions
  /\ UNCHANGED <<storeVars, pageVars, chatVars>>

\* The mount effect and every tick of its interval.
PollSessions == interval /\ fetchSessionsStart(TRUE)

\* The refresh button.
RefreshSessions == fetchSessionsStart(FALSE)

\* The table is read.
fetchSessionsSelect ==
  /\ fetchCall.pc = "select"
  /\ fetchCall' = [fetchCall EXCEPT
                     !.pc = "apply",
                     !.data = SelectSessions(verification_sessions)]
  /\ UNCHANGED <<sessions, newSessionAlert>>
  /\ UNCHANGED dashButSessions
  /\ UNCHANGED <<storeVars, pageVars, chatVars>>

\* The read fails: data is null, if (data) is skipped, nothing is set.
fetchSessionsError ==
  /\ fetchCall.pc = "select"
  /\ fetchCall' = IdleFetch
  /\ UNCHANGED <<sessions, newSessionAlert>>
  /\ UNCHANGED dashButSessions
  /\ UNCHANGED <<storeVars, pageVars, chatVars>>

\* if (sessions.length > 0 && data.length > sessions.length)
RaisesAlert(prevLength, data) == prevLength > 0 /\ Len(data) > prevLength

\* The rows read replace the list; a longer list raises the alert.
fetchSessionsApply ==
  /\ fetchCall.pc = "apply"
  /\ newSessionAlert' =
       IF RaisesAlert(fetchCall.prevLength, fetchCall.data)
       THEN TRUE ELSE newSessionAlert
  /\ sessions' = fetchCall.data
  /\ fetchCall' = IdleFetch
  /\ UNCHANGED dashButSessions
  /\ UNCHANGED <<storeVars, pageVars, chatVars>>

\* setTimeout(() => setNewSessionAlert(false), 3000)
AlertTimeout ==
  /\ newSessionAlert
  /\ newSessionAlert' = FALSE
  /\ UNCHANGED <<sessions, fetchCall>>
  /\ UNCHANGED dashButSessions
  /\ UNCHANGED <<storeVars, pageVars, chatVars>>

\* A row of the list is clicked: setSelectedSession(session). When the
\* selected id changes the channel effect runs: the old channel is removed,
\* loadMessages is called and a new channel is created.
SelectSession(i) ==
  /\ isAuthenticated
  /\ i \in 1..Len(filteredSessions)
  /\ LET session == filteredSessions[i]
     IN /\ selectedSession # session
        /\ selectedSession' = session
        /\ IF session.id # selectedSession.id
           THEN /\ loadCalls' = loadCalls \cup {Load(session.id)}
                /\ channelRef' = [topic |-> session.id, joined |-> FALSE]
                /\ dashChannels' =
                     RemoveChannel(dashChannels, channelRef) \cup {session.id}
           ELSE UNCHANGED <<loadCalls, channelRef, dashChannels>>
  /\ UNCHANGED interval
  /\ UNCHANGED <<adminVars, sessions, messages, newMessage, codeInput,
                 searchTerm, filter, newSessionAlert, isConnected, fetchCall,
                 sendCall, endCall, statusCall, codeCall>>
  /\ UNCHANGED <<storeVars, pageVars, chatVars>>

ClickSession == \E i \in 1..Len(filteredSessions) : SelectSession(i)

\* The channel of the selected session reports SUBSCRIBED.
DashSubscribed ==
  /\ isAuthenticated
  /\ channelRef # NoChannel
  /\ ~channelRef.joined
  /\ channelRef' = [channelRef EXCEPT !.joined = TRUE]
  /\ isConnected' = TRUE
  /\ UNCHANGED <<dashChannels, interval>>
  /\ UNCHANGED <<adminVars, sessions, selectedSession, messages,
                 newMessage, codeInput, searchTerm, filter, newSessionAlert,
                 fetchCall, loadCalls, sendCall, endCall, statusCall,
                 codeCall>>
  /\ UNCHANGED <<storeVars, pageVars, chatVars>>

\* loadMessages: the messages of the session are read.
loadMessagesSelect(call) ==
  /\ call \in loadCalls
  /\ call.pc = "select"
  /\ loadCalls' = (loadCalls \ {call}) \cup
                    {Loaded(call.sessionId,
                            DashHistory(chat_messages, call.sessionId))}
  /\ UNCHANGED <<adminVars, sessions, selectedSession, messages,
                 newMessage, codeInput, searchTerm, filter, newSessionAlert,
                 isConnected, channelVars, fetchCall, sendCall, endCall,
                 statusCall, codeCall>>
  /\ UNCHANGED <<storeVars, pageVars, chatVars>>

\* loadMessages: setMessages(data.map(...)).
loadMessagesApply(call) ==
  /\ call \in loadCalls
  /\ call.pc = "apply"
  /\ messages' = call.data
  /\ loadCalls' = loadCalls \ {call}
  /\ UNCHANGED dashButMessagesLoads
  /\ UNCHANGED <<storeVars, pageVars, chatVars>>

LoadMessages ==
  \E call \in loadCalls : loadMessagesSelect(call) \/ loadMessagesApply(call)

\* onChange of the code input, shown while the selected session has no code.
TypeCode(v) ==
  /\ isAuthenticated
  /\ selectedSession # NoSelection
  /\ selectedSession.code = Empty
  /\ codeInput # v
  /\ codeInput' = v
  /\ UNCHANGED <<adminVars, sessions, selectedSession, messages,
                 newMessage, searchTerm, filter, newSessionAlert,
                 isConnected, channelVars, fetchCall, loadCalls, sendCall,
                 endCall, statusCall, codeCall>>
  /\ UNCHANGED <<storeVars, pageVars, chatVars>>

TypeCodeInput == \E v \in OperatorCodes : TypeCode(v)

\* The operator types only white space into the code input.
TypeBlankCodeInput == \E v \in BlankCodes : TypeCode(v)

\* saveVerificationCode up to its await (Set Code, or Enter in the input).
saveVerificationCodeStart ==
  /\ isAuthenticated
  /\ codeCall.pc = "idle"
  /\ selectedSession # NoSelection
  /\ selectedSession.code = Empty
  /\ Trim(codeInput) # Empty
  /\ codeCall' = [pc |-> "update", sessionId |-> selectedSession.id,
                  code |-> Trim(codeInput)]
  /\ UNCHANGED <<adminVars, sessions, selectedSession, messages,
                 newMessage, codeInput, searchTerm, filter, newSessionAlert,
                 isConnected, channelVars, fetchCall, loadCalls, sendCall,
                 endCall, statusCall>>
  /\ UNCHANGED <<storeVars, pageVars, chatVars>>

\* sessions.map(s => s.id === id ? { ...s, code } : s)
WithCode(list, id, code) ==
  [i \in 1..Len(list) |->
     IF list[i].id = id THEN [list[i] EXCEPT !.code = code] ELSE list[i]]

\* sessions.map(s => s.id === id ? { ...s, status } : s)
WithStatus(list, id, status) ==
  [i \in 1..Len(list) |->
     IF list[i].id = id THEN [list[i] EXCEPT !.status = status] ELSE list[i]]

\* The code is stored, then the local list, the selection and the input are
\* updated.
saveVerificationCodeUpdate ==
  /\ codeCall.pc = "update"
  /\ verification_sessions' =
       UpdateCode(verification_sessions, codeCall.sessionId, codeCall.code)
  /\ sessions' = WithCode(sessions, codeCall.sessionId, codeCall.code)
  /\ selectedSession' =
       IF selectedSession # NoSelection
       THEN [selectedSession EXCEPT !.code = codeCall.code]
       ELSE NoSelection
  /\ codeInput' = Empty
  /\ codeCall' = IdleCode
  /\ UNCHANGED <<adminVars, messages, newMessage, searchTerm, filter,
                 newSessionAlert, isConnected, channelVars, fetchCall,
                 loadCalls, sendCall, endCall, statusCall>>
  /\ UNCHANGED <<chat_messages, sessionSeq, messageSeq, endedVars>>
  /\ UNCHANGED <<pageVars, chatVars>>

\* The Verify and Reject buttons are rendered.
StatusButtonsShown ==
  selectedSession # NoSelection /\ selectedSession.status = "pending"

\* updateSessionStatus(selectedSession.id, status) up to its await.
updateSessionStatusStart(status) ==
  /\ isAuthenticated
  /\ statusCall.pc = "idle"
  /\ StatusButtonsShown
  /\ statusCall' = [pc |-> "update", sessionId |-> selectedSession.id,
                    status |-> status]
  /\ UNCHANGED <<adminVars, sessions, selectedSession, messages,
                 newMessage, codeInput, searchTerm, filter, newSessionAlert,
                 isConnected, channelVars, fetchCall, loadCalls, sendCall,
                 endCall, codeCall>>
  /\ UNCHANGED <<storeVars, pageVars, chatVars>>

ClickStatus ==
  \E status \in {"verified", "rejected"} : updateSessionStatusStart(status)

\* The status update updateSessionStatus issues.
DashStatusUpdate(table, id, status) == UpdateStatus(table, id, status)

\* The status is stored, then the local list and the selection are updated.
updateSessionStatusUpdate ==
  /\ statusCall.pc = "update"
  /\ verification_sessions' =
       DashStatusUpdate(verification_sessions, statusCall.sessionId,
                        statusCall.status)
  /\ sessions' = WithStatus(sessions, statusCall.sessionId, statusCall.status)
  /\ selectedSession' =
       IF selectedSession # NoSelection
       THEN [selectedSession EXCEPT !.status = statusCall.status]
       ELSE NoSelection
  /\ statusCall' = IdleStatus
  /\ UNCHANGED <<adminVars, messages, newMessage, codeInput, searchTerm,
                 filter, newSessionAlert, isConnected, channelVars, fetchCall,
                 loadCalls, sendCall, endCall, codeCall>>
  /\ UNCHANGED <<chat_messages, sessionSeq, messageSeq, endedVars>>
  /\ UNCHANGED <<pageVars, chatVars>>

\* onChange of the dashboard's message input.
TypeNewMessage ==
  \E v \in Texts :
    /\ isAuthenticated
    /\ selectedSession # NoSelection
    /\ newMessage # v
    /\ newMessage' = v
    /\ UNCHANGED <<adminVars, sessions, selectedSession, messages,
                   codeInput, searchTerm, filter, newSessionAlert,
                   isConnected, channelVars, fetchCall, loadCalls, sendCall,
                   endCall, statusCall, codeCall>>
    /\ UNCHANGED <<storeVars, pageVars, chatVars>>

\* sendMessage up to its await: the message gets its uuid, is appended to the
\* transcript and the input is cleared.
sendMessageStart ==
  /\ isAuthenticated
  /\ sendCall.pc = "idle"
  /\ Trim(newMessage) # Empty
  /\ selectedSession # NoSelection
  /\ messageSeq < MaxMessages
  /\ LET msg == Local(messageSeq + 1, "admin", Trim(newMessage), "undefined",
                      "undefined")
     IN /\ messages' = Append(messages, msg)
        /\ sendCall' = [pc |-> "insert", sessionId |-> selectedSession.id,
                        msg |-> msg]
  /\ messageSeq' = messageSeq + 1
  /\ newMessage' = Empty
  /\ UNCHANGED <<adminVars, sessions, selectedSession, codeInput,
                 searchTerm, filter, newSessionAlert, isConnected, channelVars,
                 fetchCall, loadCalls, endCall, statusCall, codeCall>>
  /\ UNCHANGED <<verification_sessions, chat_messages, sessionSeq,
                 endedVars>>
  /\ UNCHANGED <<pageVars, chatVars>>

\* The row a chat send inserts: message_type and is_correct take their
\* column defaults.
TextRow(call, sender) ==
  Row(call.msg.id, call.sessionId, sender, call.msg.message, "text", "null")

\* The payload.new.sender === 'admin' handler of the notification effect.
Unread(count, sid, row) ==
  IF NotificationsOn(sid) /\ row.sender = "admin" THEN count + 1 ELSE count

\* The backend inserts the row; sendMessage is still awaiting the answer.
sendMessageInsert ==
  /\ sendCall.pc = "insert"
  /\ LET row == TextRow(sendCall, "admin")
     IN /\ chat_messages' =
             InsertMessage(chat_messages, verification_sessions, row)
        /\ unreadCount' = IF RowAccepted(verification_sessions, row)
                          THEN Unread(unreadCount, sendCall.sessionId, row)
                          ELSE unreadCount
        /\ UNCHANGED notifications
  /\ sendCall' = [sendCall EXCEPT !.pc = "broadcast"]
  /\ UNCHANGED chatMessages
  /\ UNCHANGED <<adminVars, sessions, selectedSession, messages,
                 newMessage, codeInput, searchTerm, filter, newSessionAlert,
                 isConnected, channelVars, fetchCall, loadCalls, endCall,
                 statusCall, codeCall>>
  /\ UNCHANGED <<verification_sessions, sessionSeq, messageSeq,
                 endedVars>>
  /\ UNCHANGED <<step, formStep, formData, sessionId, isVerifying,
                 isProcessing, isSuccess, isChatOpen, codeError, nextCall,
                 submitCall>>
  /\ UNCHANGED <<chatInput, chatIsConnected, chatEnded, chatChannel,
                 chatLoads, chatSend>>

\* sendMessage after its await: the message is broadcast on the channel the
\* ref holds now.
sendMessageBroadcast ==
  /\ sendCall.pc = "broadcast"
  /\ chatMessages' = IF channelRef # NoChannel /\ ChatListens(channelRef.topic)
                     THEN ChatOnBroadcast(chatMessages, "new-message",
                                          sendCall.msg)
                     ELSE chatMessages
  /\ sendCall' = IdleSend
  /\ UNCHANGED <<adminVars, sessions, selectedSession, messages,
                 newMessage, codeInput, searchTerm, filter, newSessionAlert,
                 isConnected, channelVars, fetchCall, loadCalls, endCall,
                 statusCall, codeCall>>
  /\ UNCHANGED <<storeVars, pageVars>>
  /\ UNCHANGED <<chatInput, chatIsConnected, chatEnded, chatChannel,
                 chatLoads, chatSend>>

\* Faulty variant: the data is deleted without the broadcast.
BroadcastChatEnded_Silent(sent, ref) == sent

\* if (channelRef.current) channelRef.current.send({ event: 'chat-ended' })
BroadcastChatEnded(sent, ref) ==
  IF ref # NoChannel THEN sent \cup {ref.topic} ELSE sent

\* endConversation up to its await: the chat-ended event is broadcast on the
\* channel the ref holds, and the grace period starts.
endConversationStart ==
  /\ isAuthenticated
  /\ endCall.pc = "idle"
  /\ selectedSession # NoSelection
  /\ endCall' = [pc |-> "deleteMessages", sessionId |-> selectedSession.id]
  /\ chatEndedSent' = BroadcastChatEnded(chatEndedSent, channelRef)
  /\ chatEnded' = IF channelRef # NoChannel /\ ChatListens(channelRef.topic)
                  THEN TRUE ELSE chatEnded
  /\ chatEndedReceived' =
       IF channelRef # NoChannel /\ ChatListens(channelRef.topic)
       THEN chatEndedReceived \cup {sessionId} ELSE chatEndedReceived
  /\ UNCHANGED <<adminVars, sessions, selectedSession, messages,
                 newMessage, codeInput, searchTerm, filter, newSessionAlert,
                 isConnected, channelVars, fetchCall, loadCalls, sendCall,
                 statusCall, codeCall>>
  /\ UNCHANGED <<verification_sessions, chat_messages, sessionSeq,
                 messageSeq>>
  /\ UNCHANGED <<chatMessages, chatInput, chatIsConnected, chatChannel,
                 chatLoads, chatSend>>
  /\ UNCHANGED pageVars

\* After the grace period the messages of the session are deleted.
endConversationDeleteMessages ==
  /\ endCall.pc = "deleteMessages"
  /\ chat_messages' = DeleteMessages(chat_messages, endCall.sessionId)
  /\ endCall' = [endCall EXCEPT !.pc = "deleteSession"]
  /\ UNCHANGED <<adminVars, sessions, selectedSession, messages,
                 newMessage, codeInput, searchTerm, filter, newSessionAlert,
                 isConnected, channelVars, fetchCall, loadCalls, sendCall,
                 statusCall, codeCall>>
  /\ UNCHANGED <<verification_sessions, sessionSeq, messageSeq,
                 endedVars>>
  /\ UNCHANGED <<pageVars, chatVars>>

\* The session row is deleted; the foreign key cascades to its messages.
endConversationDeleteSession ==
  /\ endCall.pc = "deleteSession"
  /\ verification_sessions' =
       DeleteSessionRow(verification_sessions, endCall.sessionId)
  /\ chat_messages' =
       IF SessionExists(endCall.sessionId)
       THEN CascadeMessages(chat_messages, endCall.sessionId)
       ELSE chat_messages
  /\ endCall' = [endCall EXCEPT !.pc = "local"]
  /\ UNCHANGED <<adminVars, sessions, selectedSession, messages,
                 newMessage, codeInput, searchTerm, filter, newSessionAlert,
                 isConnected, channelVars, fetchCall, loadCalls, sendCall,
                 statusCall, codeCall>>
  /\ UNCHANGED <<sessionSeq, messageSeq, endedVars>>
  /\ UNCHANGED <<pageVars, chatVars>>

\* sessions.filter(s => s.id !== sessionId)
Without(list, id) == LET Other(s) == s.id # id IN SelectSeq(list, Other)

\* The local view is updated: the session leaves the list, the selection is
\* cleared (the channel effect removes the channel) and the transcript is
\* emptied.
endConversationLocal ==
  /\ endCall.pc = "local"
  /\ sessions' = Without(sessions, endCall.sessionId)
  /\ selectedSession' = NoSelection
  /\ messages' = <<>>
  /\ channelRef' = NoChannel
  /\ dashChannels' = RemoveChannel(dashChannels, channelRef)
  /\ isConnected' = FALSE
  /\ endCall' = IdleEnd
  /\ UNCHANGED interval
  /\ UNCHANGED <<adminVars, newMessage, codeInput, searchTerm, filter,
                 newSessionAlert, fetchCall, loadCalls, sendCall, statusCall,
                 codeCall>>
  /\ UNCHANGED <<storeVars, pageVars, chatVars>>

(***************************************************************************)
(* ChatWindow.                                                             *)
(***************************************************************************)
\* Faulty variant: the history load does not filter the code attempts out.
ChatHistory_Unfiltered(rows, id) ==
  LET Mine(r) == r.session_id = id
      mine == SelectSeq(rows, Mine)
  IN [i \in 1..Len(mine) |->
        Local(mine[i].id, mine[i].sender, mine[i].message, "undefined",
              "undefined")]

\* select('*').eq('session_id', id).neq('message_type', 'code_attempt')
\* .order('created_at') as ChatWindow.loadMessages maps it.
ChatHistory(rows, id) ==
  LET Mine(r) == r.session_id = id /\ r.message_type # "code_attempt"
      mine == SelectSeq(rows, Mine)
  IN [i \in 1..Len(mine) |->
        Local(mine[i].id, mine[i].sender, mine[i].message, "undefined",
              "undefined")]

\* The page state the chat panel does not touch.
pageButChat == <<step, formStep, formData, sessionId, isVerifying,
                 isProcessing, isSuccess, codeError, nextCall, submitCall>>

\* The floating chat button: setIsChatOpen(!isChatOpen); setUnreadCount(0).
ToggleChat ==
  /\ ~isSuccess
  /\ isChatOpen' = ~isChatOpen
  /\ unreadCount' = 0
  /\ notifications' = NotificationEffect(notifications, sessionId, isChatOpen,
                                         sessionId, ~isChatOpen)
  /\ IF isChatOpen THEN UnmountChat ELSE MountChat
  /\ UNCHANGED pageButChat
  /\ UNCHANGED <<storeVars, dashVars>>

\* The support links under the code input: setIsChatOpen(true).
OpenSupportChat ==
  /\ FormVisible
  /\ formStep = 2
  /\ ~isChatOpen
  /\ isChatOpen' = TRUE
  /\ MountChat
  /\ notifications' = NotificationEffect(notifications, sessionId, isChatOpen,
                                         sessionId, TRUE)
  /\ UNCHANGED unreadCount
  /\ UNCHANGED pageButChat
  /\ UNCHANGED <<storeVars, dashVars>>

\* onClose of the ChatWindow: setIsChatOpen(false).
CloseChat ==
  /\ ChatMounted
  /\ isChatOpen' = FALSE
  /\ UnmountChat
  /\ notifications' = NotificationEffect(notifications, sessionId, isChatOpen,
                                         sessionId, FALSE)
  /\ UNCHANGED unreadCount
  /\ UNCHANGED pageButChat
  /\ UNCHANGED <<storeVars, dashVars>>

\* The ChatWindow's channel reports SUBSCRIBED.
ChatSubscribed ==
  /\ ChatMounted
  /\ chatChannel # NoChannel
  /\ ~chatChannel.joined
  /\ chatChannel' = [chatChannel EXCEPT !.joined = TRUE]
  /\ chatIsConnected' = TRUE
  /\ UNCHANGED <<chatMessages, chatInput, chatEnded, chatLoads, chatSend>>
  /\ UNCHANGED <<storeVars, pageVars, dashVars>>

\* ChatWindow.loadMessages: the messages of the session are read.
chatLoadSelect(call) ==
  /\ call \in chatLoads
  /\ call.pc = "select"
  /\ chatLoads' = (chatLoads \ {call}) \cup
                    {Loaded(call.sessionId,
                            ChatHistory(chat_messages, call.sessionId))}
  /\ UNCHANGED <<chatMessages, chatInput, chatIsConnected, chatEnded,
                 chatChannel, chatSend>>
  /\ UNCHANGED <<storeVars, pageVars, dashVars>>

\* ChatWindow.loadMessages: setMessages(data.map(...)).
chatLoadApply(call) ==
  /\ call \in chatLoads
  /\ call.pc = "apply"
  /\ chatMessages' = call.data
  /\ chatLoads' = chatLoads \ {call}
  /\ UNCHANGED <<chatInput, chatIsConnected, chatEnded, chatChannel,
                 chatSend>>
  /\ UNCHANGED <<storeVars, pageVars, dashVars>>

ChatLoadMessages ==
  \E call \in chatLoads : chatLoadSelect(call) \/ chatLoadApply(call)

\* onChange of the chat input (enabled once connected, gone once ended).
TypeChatInput ==
  \E v \in Texts :
    /\ ChatMounted
    /\ chatIsConnected
    /\ ~chatEnded
    /\ chatInput # v
    /\ chatInput' = v
    /\ UNCHANGED <<chatMessages, chatIsConnected, chatEnded, chatChannel,
                   chatLoads, chatSend>>
    /\ UNCHANGED <<storeVars, pageVars, dashVars>>

\* ChatWindow.handleSend up to its await.
handleSendStart ==
  /\ ChatMounted
  /\ chatIsConnected
  /\ chatSend.pc = "idle"
  /\ Trim(chatInput) # Empty
  /\ sessionId # null
  /\ ~chatEnded
  /\ messageSeq < MaxMessages
  /\ LET msg == Local(messageSeq + 1, "user", Trim(chatInput), "undefined",
                      "undefined")
     IN /\ chatMessages' = Append(chatMessages, msg)
        /\ chatSend' = [pc |-> "insert", sessionId |-> sessionId, msg |-> msg]
  /\ messageSeq' = messageSeq + 1
  /\ chatInput' = Empty
  /\ UNCHANGED <<chatIsConnected, chatEnded, chatChannel, chatLoads>>
  /\ UNCHANGED <<verification_sessions, chat_messages, sessionSeq,
                 endedVars>>
  /\ UNCHANGED <<pageVars, dashVars>>

\* The backend inserts the row; handleSend is still awaiting the answer.
handleSendInsert ==
  /\ chatSend.pc = "insert"
  /\ chat_messages' =
       InsertMessage(chat_messages, verification_sessions,
                     TextRow(chatSend, "user"))
  /\ chatSend' = [chatSend EXCEPT !.pc = "broadcast"]
  /\ UNCHANGED <<chatMessages, chatInput, chatIsConnected, chatEnded,
                 chatChannel, chatLoads>>
  /\ UNCHANGED <<verification_sessions, sessionSeq, messageSeq,
                 endedVars>>
  /\ UNCHANGED <<pageVars, dashVars>>

\* handleSend after its await: the message is broadcast to the dashboard.
handleSendBroadcast ==
  /\ chatSend.pc = "broadcast"
  /\ messages' = IF DashListens(chatSend.sessionId)
                 THEN DashOnBroadcast(messages, "new-message", chatSend.msg)
                 ELSE messages
  /\ chatSend' = IdleSend
  /\ UNCHANGED <<chatMessages, chatInput, chatIsConnected, chatEnded,
                 chatChannel, chatLoads>>
  /\ UNCHANGED dashButMessages
  /\ UNCHANGED <<storeVars, pageVars>>

(***************************************************************************)
(* Specifications.                                                         *)
(***************************************************************************)
WizardForward ==
  \/ handleStartVerification
  \/ TypeInput
  \/ handleNextName
  \/ handleNextEmail
  \/ CreateSessionReturns
  \/ ProcessingTimeout
  \/ handleSubmitStart
  \/ handleSubmitSelect
  \/ handleSubmitInsert
  \/ handleSubmitUpdate
  \/ handleSubmitFinish

Wizard == WizardForward \/ Back \/ Reload

Chat ==
  \/ ToggleChat
  \/ OpenSupportChat
  \/ CloseChat
  \/ ChatSubscribed
  \/ ChatLoadMessages
  \/ TypeChatInput
  \/ handleSendStart
  \/ handleSendInsert
  \/ handleSendBroadcast

Polling ==
  \/ PollSessions
  \/ fetchSessionsSelect
  \/ fetchSessionsApply

Selecting ==
  \/ ClickSession
  \/ DashSubscribed
  \/ LoadMessages

IssueCode ==
  \/ TypeCodeInput
  \/ saveVerificationCodeStart
  \/ saveVerificationCodeUpdate

Review ==
  \/ ClickStatus
  \/ updateSessionStatusUpdate

OperatorChat ==
  \/ TypeNewMessage
  \/ sendMessageStart
  \/ sendMessageInsert
  \/ sendMessageBroadcast

EndConversation ==
  \/ endConversationStart
  \/ endConversationDeleteMessages
  \/ endConversationDeleteSession
  \/ endConversationLocal

Login == loginSubmit \/ loginSignIn \/ loginLookup \/ loginSignOut

Logout == handleLogoutStart \/ handleLogoutFinish

Next == VisitorCreatesSession \/ TypeBlankCodeInput \/ Wizard \/ Chat
          \/ Login \/ Logout \/ ReloadAdminPage
          \/ TypeSearch \/ SetFilter
          \/ Polling \/ RefreshSessions \/ AlertTimeout
          \/ Selecting \/ IssueCode \/ Review \/ OperatorChat
          \/ EndConversation

Spec == Init /\ [][Next]_vars

\* The wizard and the operator's review of its session.
NextVerify == Wizard \/ Polling \/ ClickSession \/ IssueCode \/ Review

SpecVerify == Init /\ [][NextVerify]_vars

\* The wizard, the operator issuing the code, and the operator ending the
\* conversation.
NextSubmit == Wizard \/ Polling \/ ClickSession \/ IssueCode \/ EndConversation

SpecSubmit == Init /\ [][NextSubmit]_vars

\* The operator's side of a session up to the issued code.
Issuing == Polling \/ ClickSession \/ IssueCode

\* The chat panel without the user's own sends.
ChatView == ToggleChat \/ ChatSubscribed \/ ChatLoadMessages

ChatSending ==
  TypeChatInput \/ handleSendStart \/ handleSendInsert \/ handleSendBroadcast

\* The user's transcript: code attempts, history loads and the operator's
\* messages.
NextTranscript == WizardForward \/ Issuing \/ ChatView \/ OperatorChat

SpecTranscript == Init /\ [][NextTranscript]_vars

\* The operator's transcript: code attempts, the channel and history loads.
NextOperatorTranscript ==
  WizardForward \/ Issuing \/ DashSubscribed \/ LoadMessages

SpecOperatorTranscript == Init /\ [][NextOperatorTranscript]_vars

\* The user chatting and submitting codes while the operator ends the
\* conversation.  No code is issued, so no submission is judged correct and
\* handleSubmit never reaches its status update.
NextEnd ==
  handleStartVerification \/ TypeInput \/ handleNextName \/ handleNextEmail
    \/ CreateSessionReturns \/ ProcessingTimeout
    \/ handleSubmitStart \/ handleSubmitSelect \/ handleSubmitInsert
    \/ handleSubmitFinish \/ Polling \/ ClickSession \/ ChatView
    \/ ChatSending \/ EndConversation

SpecEnd == Init /\ [][NextEnd]_vars

\* The wizard with its chat panel and the operator issuing the code; the
\* 30 s timer of handleNext fires once it is set.
NextProcessing == Wizard \/ Issuing \/ ChatView

SpecProcessing ==
  Init /\ [][NextProcessing]_vars /\ WF_vars(ProcessingTimeout)

\* The operator issuing codes for the sessions of several visitors.
NextIssue ==
  VisitorCreatesSession \/ Issuing \/ TypeBlankCodeInput \/ EndConversation

SpecIssue == Init /\ [][NextIssue]_vars

\* The session list of the dashboard while visitors arrive and conversations
\* are ended.
NextAlerts ==
  VisitorCreatesSession \/ Polling \/ RefreshSessions \/ AlertTimeout
    \/ ClickSession \/ EndConversation

SpecAlerts == Init /\ [][NextAlerts]_vars

\* The displayed list: the dashboard opened on a store that holds sessions,
\* the operator searching and filtering.
NextFilter == Polling \/ TypeSearch \/ SetFilter \/ ClickSession

SpecFilter == InitExisting /\ [][NextFilter]_vars

\* The admin page from a browser without an operator session: logins,
\* logouts and reloads, with the session list polled while the dashboard is
\* shown.
NextAdmin ==
  Login \/ Logout \/ ReloadAdminPage \/ VisitorCreatesSession \/ Polling
    \/ ClickSession

SpecAdmin == InitLoggedOut /\ [][NextAdmin]_vars

\* The visitor up to the code step.
Arrival ==
  \/ handleStartVerification
  \/ TypeInput
  \/ handleNextName
  \/ handleNextEmail
  \/ CreateSessionReturns
  \/ ProcessingTimeout

\* Both ends of the chat: the visitor and the operator open the conversation,
\* the histories load, both send.
NextSend ==
  Arrival \/ Polling \/ ClickSession \/ DashSubscribed \/ LoadMessages
    \/ OperatorChat \/ ChatView \/ ChatSending

SpecSend == Init /\ [][NextSend]_vars

\* The conversation is ended while the visitor opens and closes the chat
\* panel and sends.
NextEnded ==
  Arrival \/ Polling \/ ClickSession \/ DashSubscribed \/ ChatView
    \/ ChatSending \/ EndConversation

SpecEnded == Init /\ [][NextEnded]_vars

\* One wizard run without a page reload: the visitor goes forward and back
\* between the steps, with the chat panel opened and closed.
NextRun ==
  handleStartVerification \/ TypeInput \/ handleNextName
    \/ handleNextEmailRepeated \/ CreateSessionReturns \/ ProcessingTimeout
    \/ Back \/ ChatView

SpecRun == Init /\ [][NextRun]_vars

\* The unread badge: the visitor opens and closes the chat panel and sends,
\* the operator writes to the visitor's session and to another one.
NextNotify ==
  Arrival \/ VisitorCreatesSession \/ Polling \/ ClickSession
    \/ OperatorChat \/ ToggleChat \/ OpenSupportChat \/ CloseChat
    \/ ChatSubscribed \/ ChatSending

SpecNotify == Init /\ [][NextNotify]_vars

\* The session list: visitors arrive, the list is refreshed, sometimes
\* without success, and edited locally by the operator's handlers.
NextRefresh ==
  VisitorCreatesSession \/ Polling \/ fetchSessionsError \/ ClickSession
    \/ IssueCode \/ Review \/ EndConversation

SpecRefresh == Init /\ [][NextRefresh]_vars

\* The operator switching between the sessions of two visitors and writing
\* to them while the histories load.
NextSwitch ==
  VisitorCreatesSession \/ Polling \/ ClickSession \/ LoadMessages
    \/ OperatorChat

SpecSwitch == Init /\ [][NextSwitch]_vars

\* The dashboard's effects: sessions selected, conversations ended, the
\* dashboard unmounted by a logout or a reload and mounted again by a login.
NextChannels ==
  VisitorCreatesSession \/ Polling \/ ClickSession \/ DashSubscribed
    \/ EndConversation \/ Login \/ Logout \/ ReloadAdminPage

SpecChannels == Init /\ [][NextChannels]_vars

-----------------------------------------------------------------------------
\* Properties of the verification status and of handleSubmit.

\* C1: the status of a session only ever moves from pending to verified or
\* from pending to rejected; a verified or rejected session never changes
\* status again.
C1_StatusLeavesOnlyPending ==
  [][\A id \in DOMAIN verification_sessions \cap DOMAIN verification_sessions' :
       verification_sessions'[id].status # verification_sessions[id].status
         => /\ verification_sessions[id].status = "pending"
            /\ verification_sessions'[id].status \in {"verified", "rejected"}
    ]_vars

\* The insert step of a submission.
SubmitInserts == submitCall.pc = "insert" /\ submitCall'.pc # "insert"

\* C2: the insert step of every code submission appends exactly one
\* code_attempt row, sent by system, holding the submitted text, with
\* is_correct true exactly when that text equals the stored code.
C2_OneAttemptPerSubmission ==
  [][SubmitInserts
       => /\ Len(chat_messages') = Len(chat_messages) + 1
          /\ SubSeq(chat_messages', 1, Len(chat_messages)) = chat_messages
          /\ LET row == chat_messages'[Len(chat_messages')]
             IN /\ row.session_id = submitCall.sessionId
                /\ row.sender = "system"
                /\ row.message_type = "code_attempt"
                /\ row.message = submitCall.code
                /\ row.is_correct =
                     (IF submitCall.code = submitCall.correctCode
                      THEN "true" ELSE "false")
    ]_vars

\* The submission in flight has read the stored code and it equals (differs
\* from) the submitted one.
Matched(call) ==
  call.pc \in {"insert", "update", "timeout"} /\ call.code = call.correctCode

Mismatched(call) ==
  call.pc \in {"insert", "update", "timeout"} /\ call.code # call.correctCode

\* What every matching submission does apart from the status update: the
\* update is issued after the attempt is recorded, and the wizard ends showing
\* success with no error and the verifying flag cleared.
MatchEndsInSuccess ==
  /\ Matched(submitCall) /\ SubmitInserts => submitCall'.pc = "update"
  /\ Matched(submitCall) /\ submitCall.pc = "timeout"
       /\ submitCall'.pc = "idle"
       => isSuccess' /\ ~codeError' /\ ~isVerifying'

\* C3: on a match the status update leaves the session verified, and the
\* wizard shows success, no error, not verifying.
C3_MatchVerifiesSession ==
  [][/\ MatchEndsInSuccess
     /\ submitCall.pc = "update" /\ submitCall'.pc = "timeout"
          => /\ submitCall.sessionId \in DOMAIN verification_sessions'
             /\ verification_sessions'[submitCall.sessionId].status =
                  "verified"
    ]_vars

\* What every mismatching submission does whatever else happens: it issues no
\* status update and leaves verification_sessions alone, and it ends with the
\* code input cleared, the error shown, the verifying flag cleared, no
\* success.
MismatchEndsInError ==
  /\ Mismatched(submitCall) /\ submitCall' # submitCall
       => /\ verification_sessions' = verification_sessions
          /\ submitCall'.pc # "update"
  /\ Mismatched(submitCall) /\ submitCall.pc = "timeout"
       /\ submitCall'.pc = "idle"
       => /\ formData'.code = Empty
          /\ codeError' /\ ~isVerifying' /\ ~isSuccess'

-----------------------------------------------------------------------------
\* Properties of the two transcripts.

\* The rows recorded for the code attempts of a session.
AttemptsOf(id) ==
  {i \in 1..Len(chat_messages) :
     /\ chat_messages[i].session_id = id
     /\ chat_messages[i].message_type = "code_attempt"}

\* C5: the user's chat transcript never holds a code attempt: no entry is
\* sent by system, is typed code_attempt, or carries the id of a recorded
\* code_attempt row.
C5_NoAttemptInUserTranscript ==
  \A i \in 1..Len(chatMessages) :
    /\ chatMessages[i].sender # "system"
    /\ chatMessages[i].message_type # "code_attempt"
    /\ \A j \in 1..Len(chat_messages) :
         chat_messages[j].message_type = "code_attempt"
           => chatMessages[i].id # chat_messages[j].id

\* The chat panel shows a history that was read after a code attempt was
\* recorded: its channel has not joined yet, so the later message it shows
\* came from the history load.
C5_Witness ==
  /\ ChatMounted
  /\ ~chatChannel.joined
  /\ chatLoads = {}
  /\ \E j \in AttemptsOf(sessionId) : \E i \in 1..Len(chatMessages) :
       chatMessages[i].id > chat_messages[j].id

\* C6: once the operator's view of the selected session is settled (channel
\* joined, no history load in flight), every code attempt recorded for the
\* session is in the operator's transcript.
C6_RecordedAttemptsInOperatorTranscript ==
  /\ selectedSession # NoSelection
  /\ channelRef.joined
  /\ loadCalls = {}
  => \A j \in AttemptsOf(selectedSession.id) :
       \E i \in 1..Len(messages) :
         /\ messages[i].sender = "system"
         /\ messages[i].message = chat_messages[j].message

-----------------------------------------------------------------------------
\* Properties of endConversation and of the store.

\* endConversation has deleted the row of session s.
Ended(s) == s \in 1..sessionSeq /\ s \notin DOMAIN verification_sessions

\* C7: once endConversation has deleted session s (it is then at its local
\* update or past it), the store holds no row s and no message of s, every
\* history load for s is empty, and this stays so whatever the user sends or
\* submits afterwards.
C7_EndedSessionLeavesNothing ==
  /\ [](\A s \in 1..sessionSeq :
          Ended(s) => /\ \A i \in 1..Len(chat_messages) :
                           chat_messages[i].session_id # s
                      /\ DashHistory(chat_messages, s) = <<>>
                      /\ ChatHistory(chat_messages, s) = <<>>)
  /\ [](endCall.pc = "local" => Ended(endCall.sessionId))
  /\ [][\A s \in 1..sessionSeq : Ended(s) => Ended(s)']_vars

\* The conversation was ended while the user had used up the messages: the
\* operator's view is cleared and the store is empty.
C7_Witness ==
  /\ Ended(1)
  /\ endCall.pc = "idle"
  /\ selectedSession = NoSelection
  /\ messageSeq = MaxMessages
  /\ chatSend.pc = "idle" /\ submitCall.pc = "idle"

\* The number of messages of session id.
CountOf(rows, id) == Len(DashHistory(rows, id))

\* C8: endConversation runs broadcast, message delete, row delete, local
\* update in this order, and nothing of a session is deleted before its
\* chat-ended broadcast is sent.
C8_EndConversationOrder ==
  [][/\ endCall' # endCall
          => /\ <<endCall.pc, endCall'.pc>> \in
                  {<<"idle", "deleteMessages">>,
                   <<"deleteMessages", "deleteSession">>,
                   <<"deleteSession", "local">>,
                   <<"local", "idle">>}
             /\ endCall.pc = "idle"
                  => /\ endCall'.sessionId = selectedSession.id
                     /\ endCall'.sessionId \in chatEndedSent'
                     /\ chat_messages' = chat_messages
                     /\ verification_sessions' = verification_sessions
             /\ endCall.pc = "deleteMessages"
                  => /\ CountOf(chat_messages', endCall.sessionId) = 0
                     /\ verification_sessions' = verification_sessions
             /\ endCall.pc = "deleteSession"
                  => endCall.sessionId \notin DOMAIN verification_sessions'
             /\ endCall.pc = "local"
                  => /\ \A i \in 1..Len(sessions') :
                          sessions'[i].id # endCall.sessionId
                     /\ selectedSession' = NoSelection
                     /\ messages' = <<>>
                     /\ chat_messages' = chat_messages
                     /\ verification_sessions' = verification_sessions
     /\ \A id \in DOMAIN verification_sessions :
          \/ id \notin DOMAIN verification_sessions'
          \/ CountOf(chat_messages', id) < CountOf(chat_messages, id)
          => /\ id \in chatEndedSent
             /\ endCall.sessionId = id
             /\ endCall.pc \in {"deleteMessages", "deleteSession"}
    ]_vars

\* endConversation has deleted the messages and the row and is about to
\* update the local view, which still shows the session.
C8_Witness ==
  /\ endCall.pc = "local"
  /\ endCall.sessionId \in chatEndedSent
  /\ Ended(endCall.sessionId)
  /\ selectedSession.id = endCall.sessionId
  /\ messageSeq > 0

\* C9: every chat message references a session row that exists.
C9_MessagesReferenceLiveSession ==
  \A i \in 1..Len(chat_messages) :
    chat_messages[i].session_id \in DOMAIN verification_sessions

\* endConversation is between its two deletes and the user has recorded a
\* message in between.
C9_Witness ==
  /\ endCall.pc = "deleteSession"
  /\ SessionExists(endCall.sessionId)
  /\ CountOf(chat_messages, endCall.sessionId) > 0

-----------------------------------------------------------------------------
\* Properties of session creation.

\* C10: when createSessionWithEmail returns no row the wizard is back on the
\* email step: not processing, form step 1, session id unchanged, no timer
\* pending, and no row added.
C10_NoRowNoPartialState ==
  [][nextCall.pc = "insert" /\ nextCall'.newSessionId = "null"
       => /\ ~isProcessing'
          /\ formStep = 1 /\ formStep' = 1
          /\ step' = "form"
          /\ sessionId' = sessionId
          /\ formData' = formData
          /\ nextCall'.pc = "idle"
          /\ verification_sessions' = verification_sessions
          /\ sessionSeq' = sessionSeq
    ]_vars

\* The creation has returned no row and the email form is shown again.
C10_Witness ==
  /\ nextCall.newSessionId = "null"
  /\ nextCall.pc = "idle"
  /\ FormVisible
  /\ formStep = 1
  /\ sessionId = null
  /\ verification_sessions = <<>>

-----------------------------------------------------------------------------
\* Properties of the wizard's first steps.

\* createSessionWithEmail returns the row it inserted.
CreateSucceeds == nextCall.pc = "insert" /\ nextCall'.newSessionId = "id"

\* C11: a successful email submission adds exactly one row, holding the
\* submitted email, a blank code, status pending and no display name, and the
\* wizard's session id becomes the id of that row.
C11_CreateAddsOneRow ==
  [][CreateSucceeds
       => /\ sessionId' \notin DOMAIN verification_sessions
          /\ DOMAIN verification_sessions' =
               DOMAIN verification_sessions \cup {sessionId'}
          /\ \A id \in DOMAIN verification_sessions :
               verification_sessions'[id] = verification_sessions[id]
          /\ LET row == verification_sessions'[sessionId']
             IN /\ row.email = formData.email
                /\ row.code = Empty
                /\ row.status = "pending"
                /\ row.mc_name = Empty
                /\ formData.mcName # Empty
    ]_vars

\* The row of the wizard's session exists as created while the wizard waits.
C11_Witness ==
  /\ nextCall.pc = "timer"
  /\ isProcessing
  /\ SessionExists(sessionId)
  /\ verification_sessions[sessionId].email = formData.email
  /\ verification_sessions[sessionId].code = Empty

\* C12: once a session was created the wizard reaches the code step, not
\* processing, and until the timer fires nothing changes the stage: step,
\* form step, the processing flag and the session id stay as they are.
C12_ProcessingEndsAtCodeStep ==
  /\ (nextCall.pc = "timer") ~> (~isProcessing /\ formStep = 2)
  /\ [](nextCall.pc = "timer"
          => isProcessing /\ step = "form" /\ formStep = 1)
  /\ [][nextCall.pc = "timer"
          => \/ /\ nextCall'.pc = "timer"
                /\ isProcessing' /\ formStep' = 1 /\ step' = "form"
                /\ sessionId' = sessionId
             \/ /\ nextCall'.pc = "idle"
                /\ ~isProcessing' /\ formStep' = 2 /\ step' = "form"
                /\ sessionId' = sessionId
       ]_vars

\* The wait is over: the code step is shown for the created session, and the
\* user opened the chat meanwhile.
C12_Witness ==
  /\ nextCall.pc = "idle" /\ nextCall.newSessionId = "none"
  /\ ~isProcessing /\ formStep = 2 /\ FormVisible
  /\ SessionExists(sessionId)
  /\ isChatOpen
  /\ formData.code = Empty /\ ~codeError

\* C13: the step from the name step to the email step changes formStep and
\* nothing else: no table, no broadcast, no other state of the page, the chat
\* panel or the dashboard.
C13_NameStepIsLocal ==
  [][formStep = 0 /\ formStep' = 1
       => /\ UNCHANGED <<step, formData, sessionId, isVerifying, isProcessing,
                         isSuccess, isChatOpen, notifyVars, codeError,
                         nextCall, submitCall>>
          /\ UNCHANGED <<storeVars, chatVars, dashVars>>
    ]_vars

\* The email step right after the name step: no session exists yet.
C13_Witness ==
  /\ step = "form" /\ formStep = 1
  /\ formData.mcName # Empty /\ formData.email = Empty
  /\ sessionId = null
  /\ sessionSeq = 0
  /\ nextCall = IdleNext

-----------------------------------------------------------------------------
\* Properties of the operator dashboard.

\* C14: the Verify and Reject buttons are on screen only while the stored
\* status of the selected session is pending, and updateSessionStatus is
\* started and applied only to a row whose stored status is pending.
C14_StatusActionsOnlyOnStoredPending ==
  /\ [](StatusButtonsShown /\ SessionExists(selectedSession.id)
          => verification_sessions[selectedSession.id].status = "pending")
  /\ [][statusCall'.pc = "update" /\ SessionExists(statusCall'.sessionId)
          => verification_sessions[statusCall'.sessionId].status = "pending"
       ]_vars

\* saveVerificationCode is called, and returns from its update.
SaveCodeStarts == codeCall.pc = "idle" /\ codeCall'.pc = "update"

SaveCodeReturns == codeCall.pc = "update" /\ codeCall'.pc = "idle"

\* C15: saveVerificationCode runs only with a selected session and an input
\* that is not blank; it stores the trimmed input as the code of that session
\* and of no other, sets it on the list entry of that session and on the
\* selected session, which is that session, and clears the input.
C15_SaveCodeOverwrites ==
  [][/\ SaveCodeStarts
          => /\ selectedSession # NoSelection
             /\ Trim(codeInput) # Empty
             /\ codeCall'.sessionId = selectedSession.id
             /\ codeCall'.code = Trim(codeInput)
             /\ verification_sessions' = verification_sessions
     /\ SaveCodeReturns
          => /\ DOMAIN verification_sessions' = DOMAIN verification_sessions
             /\ \A id \in DOMAIN verification_sessions :
                  verification_sessions'[id] =
                    IF id = codeCall.sessionId
                    THEN [verification_sessions[id] EXCEPT
                            !.code = codeCall.code]
                    ELSE verification_sessions[id]
             /\ Len(sessions') = Len(sessions)
             /\ \A i \in 1..Len(sessions) :
                  sessions'[i] =
                    IF sessions[i].id = codeCall.sessionId
                    THEN [sessions[i] EXCEPT !.code = codeCall.code]
                    ELSE sessions[i]
             /\ selectedSession' # NoSelection
                  => /\ selectedSession'.id = codeCall.sessionId
                     /\ selectedSession'.code = codeCall.code
             /\ codeInput' = Empty
    ]_vars

\* A refresh of the session list applies the rows it read.
RefreshApplies == fetchCall.pc = "apply" /\ fetchCall'.pc = "idle"

\* C16: a refresh of the session list, periodic or not, raises the
\* new-request alert exactly when it returns more rows than the non-empty
\* list held before it, and otherwise leaves the alert as it is.
C16_AlertExactlyOnGrowth ==
  [][RefreshApplies
       => IF Len(sessions) > 0 /\ Len(fetchCall.data) > Len(sessions)
          THEN newSessionAlert'
          ELSE newSessionAlert' = newSessionAlert
    ]_vars

\* Two characters are the same letter, whatever their case.
SameLetter(a, b) ==
  a = b \/ <<a, b>> \in {<<"N", "n">>, <<"n", "N">>, <<"A", "a">>,
                         <<"a", "A">>, <<"E", "e">>, <<"e", "E">>}

\* text contains term, compared letter by letter ignoring case.
ContainsFolded(text, term) ==
  \E k \in 0..(Len(text) - Len(term)) :
    \A i \in 1..Len(term) : SameLetter(text[k + i], term[i])

\* The positions of the local list that are to be displayed.
ToDisplay ==
  {i \in 1..Len(sessions) :
     /\ \/ ContainsFolded(sessions[i].mc_name, searchTerm)
        \/ ContainsFolded(sessions[i].email, searchTerm)
     /\ filter = "all" \/ sessions[i].status = filter}

\* C17: the displayed list is exactly the sessions of the local list, in
\* their order, whose display name or email contains the search term ignoring
\* case and whose status passes the filter; searching and filtering change
\* only the term and the filter.
C17_DisplayedListIsTheFilter ==
  /\ [](/\ Len(filteredSessions) = Cardinality(ToDisplay)
        /\ \A i \in ToDisplay :
             filteredSessions[Cardinality({j \in ToDisplay : j <= i})] =
               sessions[i])
  /\ [][searchTerm' # searchTerm \/ filter' # filter
          => /\ UNCHANGED <<storeVars, pageVars, chatVars>>
             /\ UNCHANGED <<sessions, selectedSession, messages, fetchCall,
                            loadCalls, channelVars, newSessionAlert>>
       ]_vars

\* The term "no" shows the session named "No" and hides the one that has no
\* name and an email without it.
C17_Witness ==
  /\ searchTerm = <<"n", "o">>
  /\ filter = "all"
  /\ Len(sessions) = 2
  /\ sessions[1].mc_name = Empty /\ sessions[1].email = <<"s", "@">>
  /\ sessions[2].mc_name = <<"N", "o">> /\ sessions[2].email = <<"s", "@">>
  /\ filteredSessions = <<sessions[2]>>

-----------------------------------------------------------------------------
\* Properties of the operator login

\* A step that ends a login attempt.
LoginEnds ==
  authCall.pc \in {"signIn", "lookup", "signOut"} /\ authCall'.pc = "idle"

\* A step that writes an identifier to local storage or shows the dashboard.
SessionEstablished ==
  \/ blockclash_admin' # blockclash_admin /\ blockclash_admin' # "null"
  \/ isAuthenticated' /\ ~isAuthenticated

\* C18: an identifier is stored and the dashboard opened only by the step of
\* a login whose sign-in succeeded and whose admin_users lookup returned
\* role admin, and both happen together; a login attempt that ends without
\* opening the dashboard leaves an error, nothing in local storage and
\* nobody signed in at the auth provider.
C18_OnlyOperatorLoginEstablishes ==
  [][ /\ SessionEstablished =>
          /\ authCall.pc = "lookup"
          /\ authUser = authCall.user /\ authUser # "none"
          /\ RoleOf(authUser) = "admin"
          /\ blockclash_admin' = authUser
          /\ isAuthenticated'
      /\ LoginEnds /\ ~isAuthenticated' =>
          /\ loginError' # ""
          /\ blockclash_admin' = "null"
          /\ authUser' = "none"
    ]_vars

\* A member with role user was signed in, refused and signed out again.
C18_Witness ==
  /\ loginError = "Access denied"
  /\ authCall.pc = "idle"
  /\ authUser = "none"
  /\ ~isAuthenticated

\* The dashboard is shown to a signed-in operator only.
DashboardOnlyForOperator ==
  isAuthenticated => authUser # "none" /\ RoleOf(authUser) = "admin"

\* C19: the dashboard is shown only with an operator signed in through a
\* login; the logout removes the identifier, its last step signs out at the
\* auth provider and shows the login view; a reload with no identifier
\* stored shows the login view.
C19_DashboardOnlyAfterLogin ==
  /\ []DashboardOnlyForOperator
  /\ [][ /\ authCall'.pc = "logout" => blockclash_admin' = "null"
         /\ authCall.pc = "logout" /\ authCall'.pc = "idle" =>
             /\ blockclash_admin' = "null"
             /\ authUser' = "none"
             /\ ~isAuthenticated'
         /\ blockclash_admin = "null" /\ authCall.pc = "idle" =>
             (isAuthenticated' => isAuthenticated)
       ]_vars

\* A logout in progress: the identifier is gone, the sign-out is awaited.
C19_Witness ==
  /\ authCall.pc = "logout"
  /\ blockclash_admin = "null"
  /\ authUser = "operator"

-----------------------------------------------------------------------------
\* Properties of the optimistic sends

\* The message with this identifier is in the transcript.
InTranscript(msg, msgs) == \E i \in 1..Len(msgs) : msgs[i].id = msg.id

\* The ChatWindow stays mounted over the step and its chat is not ended.
ChatStaysOpen == ChatMounted /\ ChatMounted' /\ ~chatEnded'

\* The dashboard keeps its selected session over the step.
SelectionStays ==
  /\ selectedSession # NoSelection
  /\ selectedSession' # NoSelection
  /\ selectedSession'.id = selectedSession.id

\* C20: a message handleSend or sendMessage appended stays in the sender's
\* transcript while its insert and broadcast are under way, as long as the
\* sender keeps the conversation open.
C20_OptimisticMessageStays ==
  [][ /\ chatSend.pc # "idle" /\ InTranscript(chatSend.msg, chatMessages)
           /\ ChatStaysOpen
         => InTranscript(chatSend.msg, chatMessages')
      /\ sendCall.pc # "idle" /\ InTranscript(sendCall.msg, messages)
           /\ SelectionStays
         => InTranscript(sendCall.msg, messages')
    ]_vars

-----------------------------------------------------------------------------
\* Properties of the subscriptions

\* The dashboard is mounted and a session is selected.
Selected == isAuthenticated /\ selectedSession # NoSelection

\* C21: the channels the dashboard holds are exactly the channel of the
\* selected session, none when no session is selected or the dashboard is
\* not mounted; the ref holds that channel; the refresh timer runs only
\* while the dashboard is mounted.
C21_OneChannelForSelection ==
  /\ dashChannels = (IF Selected THEN {selectedSession.id} ELSE {})
  /\ channelRef.topic = (IF Selected THEN selectedSession.id ELSE null)
  /\ interval = isAuthenticated

\* The selection went from session 1 to session 2: the history load of
\* session 1 is still under way, the only channel is that of session 2.
C21_Witness ==
  /\ Selected
  /\ selectedSession.id = 2
  /\ \E call \in loadCalls : call.sessionId = 1
  /\ dashChannels = {2}

\* The last row of the table after the step.
Inserted == chat_messages'[Len(chat_messages')]

\* C22: the notification channels held are exactly the one of the page's
\* session while the chat panel is closed, none otherwise; the unread count
\* grows by one at a time, only with the panel closed and only in the step
\* that inserts a message of this session sent by the operator.
C22_UnreadOnlyForClosedPanel ==
  /\ [](notifications =
          (IF sessionId # null /\ ~isChatOpen THEN {sessionId} ELSE {}))
  /\ [][unreadCount' > unreadCount
          => /\ unreadCount' = unreadCount + 1
             /\ ~isChatOpen /\ ~isChatOpen'
             /\ sessionId # null
             /\ Len(chat_messages') = Len(chat_messages) + 1
             /\ Inserted.session_id = sessionId
             /\ Inserted.sender = "admin"
       ]_vars

\* The operator wrote to the page's session while its panel was closed, and
\* a message for another visitor's session is stored too.
C22_Witness ==
  /\ unreadCount = 1
  /\ ~isChatOpen
  /\ \E i \in 1..Len(chat_messages) :
       chat_messages[i].sender = "admin"
         /\ chat_messages[i].session_id # sessionId

-----------------------------------------------------------------------------
\* Properties of the transcripts

\* How often the message with this identifier is in the transcript.
Count(msg, msgs) == Cardinality({i \in 1..Len(msgs) : msgs[i].id = msg.id})

\* The step in which the operator's broadcast reaches the ChatWindow.
ChatReceives ==
  /\ sendCall.pc = "broadcast" /\ sendCall'.pc = "idle"
  /\ channelRef # NoChannel /\ ChatListens(channelRef.topic)

\* The step in which the visitor's broadcast reaches the dashboard.
DashReceives ==
  /\ chatSend.pc = "broadcast" /\ chatSend'.pc = "idle"
  /\ DashListens(chatSend.sessionId)

\* The step in which the ChatWindow applies the history held by this call.
ChatApplies(call) ==
  /\ call.pc = "apply"
  /\ chatLoads' = chatLoads \ {call}
  /\ isChatOpen' = isChatOpen /\ isSuccess' = isSuccess

\* C23 as stated: a message that reaches a widget by the broadcast and by
\* the history load is in its transcript twice afterwards, whichever of the
\* two comes last.
C23_DeliveredTwiceShownTwice ==
  [][ /\ ChatReceives /\ InTranscript(sendCall.msg, chatMessages)
         => Count(sendCall.msg, chatMessages') = 2
      /\ DashReceives /\ InTranscript(chatSend.msg, messages)
         => Count(chatSend.msg, messages') = 2
      /\ \A call \in chatLoads :
           ChatApplies(call) =>
             \A i \in 1..Len(chatMessages) :
               chatMessages[i].sender = "admin"
                 /\ InTranscript(chatMessages[i], call.data)
               => Count(chatMessages[i], chatMessages') = 2
    ]_vars

\* C23, amended: a broadcast is appended whether or not the message is in
\* the transcript already, so a message whose row was in the history applied
\* before is there twice; a history applied after the broadcast replaces the
\* transcript, and the message is there once.
C23_DuplicateOnlyWhenLoadedFirst ==
  [][ /\ ChatReceives => chatMessages' = Append(chatMessages, sendCall.msg)
      /\ DashReceives => messages' = Append(messages, chatSend.msg)
      /\ \A call \in chatLoads :
           ChatApplies(call) =>
             /\ chatMessages' = call.data
             /\ \A i \in 1..Len(chatMessages) :
                  InTranscript(chatMessages[i], call.data)
                  => Count(chatMessages[i], chatMessages') = 1
    ]_vars

\* The operator's message was in the history the ChatWindow loaded and its
\* broadcast arrived afterwards: it is shown twice.
C23_Witness ==
  \E i \in 1..Len(chatMessages) :
    chatMessages[i].sender = "admin" /\ Count(chatMessages[i], chatMessages) = 2

-----------------------------------------------------------------------------
\* Properties of the code submission

\* The stored row of the wizard's session has this status.
StoredStatus(table, status) ==
  sessionId \in DOMAIN table /\ table[sessionId].status = status

\* handleSubmit is past its status update and on the way to setIsSuccess(true).
TowardsSuccess(call) == call.pc = "timeout" /\ Truthy(call.isCorrect)

\* C24: a status update after which the stored status of the wizard's
\* session is not verified does not lead on to the success view.
C24_SuccessOnlyWhenStoredVerified ==
  [][submitCall.pc = "update" /\ TowardsSuccess(submitCall')
       => StoredStatus(verification_sessions', "verified")
    ]_vars

-----------------------------------------------------------------------------
\* Properties of the session list

\* The identifiers of a list, in its order.
Ids(list) == [i \in 1..Len(list) |-> list[i].id]

\* The list holds every row of the table, as stored, the newest first.
FullTableNewestFirst(list, table) ==
  /\ {list[i].id : i \in 1..Len(list)} = DOMAIN table
  /\ \A i \in 1..Len(list) :
       /\ list[i].email = table[list[i].id].email
       /\ list[i].code = table[list[i].id].code
       /\ list[i].status = table[list[i].id].status
       /\ \A j \in 1..Len(list) : i < j => list[i].id > list[j].id

\* The identifiers without this one, in the same order.
IdsWithout(list, id) ==
  LET Other(i) == i # id IN SelectSeq(Ids(list), Other)

\* C25: what a refresh reads is the full table, newest first, and that is
\* the list once it is applied; a refresh whose read fails leaves the list
\* as it is; the status and code handlers leave the order of the list as it
\* is and endConversation only takes its session out.
C25_ListIsTableNewestFirst ==
  [][ /\ fetchCall.pc = "select" /\ fetchCall'.pc = "apply"
         => FullTableNewestFirst(fetchCall'.data, verification_sessions)
      /\ fetchCall.pc = "apply" /\ fetchCall'.pc = "idle"
         => sessions' = fetchCall.data
      /\ fetchCall.pc = "select" /\ fetchCall'.pc = "idle"
         => sessions' = sessions
      /\ statusCall.pc = "update" /\ statusCall'.pc = "idle"
         => Ids(sessions') = Ids(sessions)
      /\ codeCall.pc = "update" /\ codeCall'.pc = "idle"
         => Ids(sessions') = Ids(sessions)
      /\ endCall.pc = "local" /\ endCall'.pc = "idle"
         => Ids(sessions') = IdsWithout(sessions, endCall.sessionId)
    ]_vars

\* Two sessions listed newest first, the older one edited locally.
C25_Witness ==
  /\ Ids(sessions) = <<2, 1>>
  /\ sessions[2].status = "verified"
  /\ sessions[2].code # Empty

\* C26: on the code step the wizard's session id is set, and a handleSubmit
\* under way was started for a session id that is not null.
C26_CodeStepHasSession ==
  /\ formStep = 2 => sessionId # null
  /\ submitCall.pc # "idle" => submitCall.sessionId # null

\* The wizard is on the code step and a code submission is under way.
C26_Witness ==
  /\ formStep = 2
  /\ sessionId # null
  /\ submitCall.pc # "idle"

\* No code is stored for this session: its row is gone or its code is blank.
NoStoredCode(table, id) == id \notin DOMAIN table \/ table[id].code = Empty

\* The rows whose status is verified.
Verified(table) == {i \in DOMAIN table : table[i].status = "verified"}

\* C27: a submission that reads no stored code is not judged correct; only
\* a submission judged correct goes on to the status update; and
\* handleSubmit makes a row verified only for a submission judged against a
\* stored code that is not blank.
C27_NoCodeNeverCorrect ==
  [][ /\ submitCall.pc = "select" /\ submitCall'.pc # "select"
           /\ NoStoredCode(verification_sessions, submitCall.sessionId)
         => submitCall'.isCorrect # "true" /\ submitCall'.pc # "update"
      /\ submitCall'.pc = "update" /\ submitCall.pc # "update"
         => submitCall.isCorrect = "true" /\ submitCall.correctCode # Empty
      /\ submitCall.pc = "update" /\ submitCall'.pc # "update"
           /\ Verified(verification_sessions')
                 # Verified(verification_sessions)
         => /\ submitCall.correctCode # Empty
            /\ submitCall.code = submitCall.correctCode
            /\ submitCall.sessionId \in DOMAIN verification_sessions
    ]_vars

\* A submission was judged after its session row had been deleted.
C27_Witness ==
  /\ submitCall.pc = "insert"
  /\ submitCall.sessionId \notin DOMAIN verification_sessions
  /\ submitCall.isCorrect # "true"

\* The stored row of this message, if there is one, is of this session.
BelongsTo(msg, id) ==
  \A j \in 1..Len(chat_messages) :
    chat_messages[j].id = msg.id => chat_messages[j].session_id = id

\* C28: once the history loads the selections started have completed, every
\* message of the operator transcript belongs to the selected session.
C28_TranscriptOfSelectedSession ==
  Selected /\ loadCalls = {}
    => \A i \in 1..Len(messages) : BelongsTo(messages[i], selectedSession.id)

\* C29: while the ChatWindow stays open on its session, a message of the
\* operator in its transcript stays there; while the dashboard keeps its
\* selection, a message of the visitor in its transcript stays there.
C29_ReceivedMessageStays ==
  [][ /\ ChatStaysOpen /\ sessionId' = sessionId
         => \A i \in 1..Len(chatMessages) :
              chatMessages[i].sender = "admin"
              => InTranscript(chatMessages[i], chatMessages')
      /\ SelectionStays /\ isAuthenticated'
         => \A i \in 1..Len(messages) :
              messages[i].sender = "user"
              => InTranscript(messages[i], messages')
    ]_vars

\* C30: once the ChatWindow has handled the chat-ended event of the page's
\* session, no handleSend for that session takes effect: nothing is appended
\* to the visitor's transcript by a send, and no insert or broadcast is
\* started.
C30_NoSendAfterChatEnded ==
  [][ sessionId # null /\ sessionId \in chatEndedReceived
        => ~(chatSend.pc = "idle" /\ chatSend'.pc = "insert") ]_vars

\* C31: in a wizard run the session id of the page, once set, never changes,
\* and no session row is created once it is set.
C31_OneSessionPerRun ==
  [][ sessionId # null
        => sessionId' = sessionId /\ sessionSeq' = sessionSeq ]_vars

\* C32: a session whose endConversation has completed is not in the local
\* session list of the dashboard.
C32_EndedSessionNotListed ==
  \A s \in 1..sessionSeq :
    Ended(s) /\ ~(endCall.pc # "idle" /\ endCall.sessionId = s)
      => \A i \in 1..Len(sessions) : sessions[i].id # s

\* C33: every step that opens the chat panel sets the unread count to zero.
C33_OpeningResetsUnread ==
  [][ ~isChatOpen /\ isChatOpen' => unreadCount' = 0 ]_vars

\* C34: when endConversation finishes for a session while another session is
\* selected, that selection and its transcript are left as they are.
C34_EndLeavesOtherSelection ==
  [][ ( /\ endCall.pc = "local" /\ endCall'.pc = "idle"
        /\ selectedSession # NoSelection
        /\ selectedSession.id # endCall.sessionId )
      => selectedSession' = selectedSession /\ messages' = messages ]_vars

\* C35: an entry of the operator transcript that shows a code attempt is
\* marked as a code attempt, and an entry loaded from a recorded code_attempt
\* row carries the correctness flag of that row.
C35_AttemptShownAsRecorded ==
  \A i \in 1..Len(messages) :
    /\ messages[i].sender = "system"
         => messages[i].message_type = "code_attempt"
    /\ \A j \in 1..Len(chat_messages) :
         ( /\ chat_messages[j].id = messages[i].id
           /\ chat_messages[j].message_type = "code_attempt" )
         => messages[i].is_correct = chat_messages[j].is_correct

====
